---- MODULE Spec2Model ----
(***************************************************************************)
(* Model of the normalized checkpoint store of vscode-checkpoints          *)
(* (src/src/CheckpointsModel.ts).                                          *)
(*                                                                         *)
(* Strings that the code takes apart or builds (document uris, checkpoint  *)
(* ids, the empty selection '') are sequences of one-character strings, so *)
(* that path.dirname, path.basename and Number.toString are computed and   *)
(* file ids and checkpoint ids live in one id space, as in the code.       *)
(* Display names and texts are only stored and compared: plain strings.    *)
(***************************************************************************)
EXTENDS Integers, Sequences, FiniteSets

(* ---------------------------------------------------------------- bounds *)

\* The largest timestamp handed to add.
MaxTs == 11
\* Number of add calls in a run.
MaxAdds == 3

\* Number of add calls in a run that also varies names and texts.
MaxNamedAdds == 2

\* Date.now() values: one- and two-digit numbers.
Timestamps == 9..MaxTs

\* document.uri.toString() of the documents of the workspace: two files with
\* the same base name in different directories, and one with another name.
SameNameDocuments == { <<"/", "a", "/", "x">>, <<"/", "b", "/", "x">> }
OtherDocument == <<"/", "a", "/", "y">>
\* A document in a directory with a long name.
LongDocument ==
    << "/", "p", "r", "o", "j", "e", "c", "t", "s", "/",
       "c", "h", "e", "c", "k", "p", "o", "i", "n", "t", "s", "/", "y" >>

Documents == SameNameDocuments \cup {OtherDocument}

\* Names typed in the name prompt, and document contents: both are stored and
\* never inspected by the operations modelled here.
Names == {"v1"}
Texts == {"t1"}

\* The file ids of the first store version, a document's fsPath: two files of
\* the same name, a path with a character that Uri.toString encodes, a path
\* that Uri.file makes absolute, and an id that is not a string.
LegacyPaths == { <<"/", "a", "/", "x">>, <<"/", "b", "/", "x">>,
                 <<"/", "a", " ", "x">>, <<"a", "/", "x">>, <<"null">> }

\* The outcome of document.getText() when it raises an exception instead of
\* returning a text.
GetTextThrows == "getText throws"

\* Names typed in the rename prompt, and the contents of edited documents.
NewNames == Names \cup {"v2"}
NewTexts == Texts \cup {"t2"}

\* The empty string '' (also what a missing id argument is tested as: !id).
EmptyString == <<>>

(* ------------------------------------------------------- string helpers *)

DigitChars == <<"0", "1", "2", "3", "4", "5", "6", "7", "8", "9">>

\* Number.prototype.toString() of a non-negative integer.
RECURSIVE toString(_)
toString(n) ==
    IF n < 10 THEN <<DigitChars[n + 1]>>
    ELSE toString(n \div 10) \o <<DigitChars[(n % 10) + 1]>>

\* 1-based position of the last "/" of s, 0 when there is none.
LastSlash(s) ==
    LET P == {i \in 1..Len(s) : s[i] = "/"}
    IN IF P = {} THEN 0 ELSE CHOOSE i \in P : \A j \in P : j <= i

\* path.dirname of a path without trailing slash.
dirname(s) ==
    LET k == LastSlash(s)
    IN IF k = 0 THEN <<".">>
       ELSE IF k = 1 THEN <<"/">>
       ELSE SubSeq(s, 1, k - 1)

\* path.basename of a path without trailing slash.
basename(s) == SubSeq(s, LastSlash(s) + 1, Len(s))

\* An id that is not a string (null in a damaged blob); as a property key it
\* reads as the key "null".
NullId == <<"null">>

\* Whether Uri.file(path) raises: path[0] of a value that is not a string.
UriFileThrows(path) == path = NullId

\* The characters Uri.toString percent-encodes in a path, among those used.
encodeChar(c) ==
    IF c = " " THEN <<"%", "2", "0">>
    ELSE IF c = ":" THEN <<"%", "3", "A">>
    ELSE <<c>>

RECURSIVE encodePath(_)
encodePath(s) ==
    IF s = <<>> THEN <<>> ELSE encodeChar(Head(s)) \o encodePath(Tail(s))

\* Uri.file(path).toString() of a string: scheme file, empty authority, the
\* path made absolute and percent-encoded.
UriFileToString(path) ==
    LET absolute == IF path = <<>> \/ path[1] # "/" THEN <<"/">> \o path ELSE path
    IN <<"f", "i", "l", "e", ":", "/", "/">> \o encodePath(absolute)

(* -------------------------------------------------------- array helpers *)

\* Array.prototype.findIndex(x => x == id): 0-based index, -1 when absent.
findIndex(arr, id) ==
    LET P == {i \in 1..Len(arr) : arr[i] = id}
    IN IF P = {} THEN -1 ELSE (CHOOSE i \in P : \A j \in P : i <= j) - 1

\* Mutant of splice1: slice, which leaves the array as it is.
splice1_keep(arr, start) == arr

\* Array.prototype.splice(start, 1): a negative start counts from the end.
splice1(arr, start) ==
    LET n == Len(arr)
        s0 == IF start < 0 THEN (IF n + start < 0 THEN 0 ELSE n + start) ELSE start
    IN IF s0 >= n THEN arr
       ELSE SubSeq(arr, 1, s0) \o SubSeq(arr, s0 + 2, n)

\* Mutant of push: unshift, the element goes to the front.
push_front(arr, x) == <<x>> \o arr

\* Array.prototype.push(x).
push(arr, x) == Append(arr, x)

\* Mutant of filterOut: shift, which drops the first element whatever it is.
filterOut_first(arr, id) == IF arr = <<>> THEN arr ELSE Tail(arr)

\* Array.prototype.filter(x => x !== id).
filterOut(arr, id) == SelectSeq(arr, LAMBDA x : x # id)

\* delete obj[key]
deleteKey(obj, key) == [k \in (DOMAIN obj) \ {key} |-> obj[k]]

\* obj[key] = value
setKey(obj, key, value) ==
    [k \in (DOMAIN obj) \cup {key} |-> IF k = key THEN value ELSE obj[k]]

Range(seq) == {seq[i] : i \in 1..Len(seq)}

(* ------------------------------------------------------------ the store *)

\* An object without keys ({}).
EmptyObject == [k \in {} |-> {}]

\* Value of a variable holding undefined.
Undefined == [undefined |-> TRUE]

\* Mutant of createEmptyStore: the new store carries no current version.
createEmptyStore_unversioned ==
    [ version     |-> 0,
      files       |-> [byId |-> EmptyObject, allIds |-> <<>>],
      checkpoints |-> [byId |-> EmptyObject, allIds |-> <<>>] ]

createEmptyStore ==
    [ version     |-> 1,
      files       |-> [byId |-> EmptyObject, allIds |-> <<>>],
      checkpoints |-> [byId |-> EmptyObject, allIds |-> <<>>] ]

\* this.maxLengthFileName is declared with the literal type 15 and never
\* assigned: its value is undefined, and (n > undefined) is false for all n.
GreaterThanMaxLengthFileName(n) == FALSE

\* The extraName of a new file (add, the truncation branch included: substr
\* from the index length - undefined, that is from 0, of length - 1 characters).
extraNameOf(documentId) ==
    LET extraName == dirname(documentId)
    IN IF GreaterThanMaxLengthFileName(Len(extraName))
       THEN <<".", ".", ".">> \o SubSeq(extraName, 1, Len(extraName) - 1)
       ELSE extraName

\* State of one synchronous call: the store, whether an exception is
\* propagating, the File objects the call unlinked from files.byId (callers
\* still hold them), and the value returned by the last helper.
Exec(store) ==
    [ store    |-> store,
      threw    |-> FALSE,
      detached |-> EmptyObject,
      ret      |-> Undefined,
      fired    |-> <<>>,
      writes   |-> <<>> ]

\* EventEmitter.fire(payload) on one of the channels: the listeners run
\* before fire returns, seen is the store they read.
fire(e, channel, payload) ==
    [e EXCEPT !.fired = Append(@, [channel |-> channel, payload |-> payload,
                                   seen |-> e.store])]

\* updateWorkspaceState: workspaceState.update("checkpointsStore",
\* this.checkpointStore); the argument of the method is not used.
updateWorkspaceState(e) ==
    [e EXCEPT !.writes = Append(@, e.store)]

getFile(store, id) ==
    IF id \in DOMAIN store.files.byId THEN store.files.byId[id] ELSE Undefined

getCheckpoint(store, id) ==
    IF id \in DOMAIN store.checkpoints.byId THEN store.checkpoints.byId[id] ELSE Undefined

\* handleNewDuplicates: e.ret is the new, not yet stored, file.  Reading
\* file.name of a listed id without byId entry raises a TypeError.
RECURSIVE handleNewDuplicatesFrom(_, _, _)
handleNewDuplicatesFrom(e, allIds, i) ==
    IF e.threw \/ i > Len(allIds) THEN e
    ELSE LET fileId == allIds[i]
             byId   == e.store.files.byId
         IN IF fileId \notin DOMAIN byId
            THEN [e EXCEPT !.threw = TRUE]
            ELSE IF e.ret.name # byId[fileId].name
            THEN handleNewDuplicatesFrom(e, allIds, i + 1)
            ELSE handleNewDuplicatesFrom(
                    [e EXCEPT
                       !.ret.fileNameDuplicates = Append(@, byId[fileId].id),
                       !.store.files.byId[fileId].fileNameDuplicates =
                            Append(@, e.ret.id)],
                    allIds, i + 1)

\* Mutant of handleNewDuplicates: no file is marked.
handleNewDuplicates_none(e, newFile) == [e EXCEPT !.ret = newFile]

handleNewDuplicates(e, newFile) ==
    handleNewDuplicatesFrom([e EXCEPT !.ret = newFile], e.store.files.allIds, 1)

\* handleRemovedDuplicates: a listed id without byId entry raises a TypeError;
\* a missing reverse reference is logged and splice(-1, 1) then runs.
RECURSIVE handleRemovedDuplicatesFrom(_, _, _)
handleRemovedDuplicatesFrom(e, removedFile, i) ==
    IF e.threw \/ i > Len(removedFile.fileNameDuplicates) THEN e
    ELSE LET fileId == removedFile.fileNameDuplicates[i]
             byId   == e.store.files.byId
         IN IF fileId \notin DOMAIN byId
            THEN [e EXCEPT !.threw = TRUE]
            ELSE LET removeIndex ==
                        findIndex(byId[fileId].fileNameDuplicates, removedFile.id)
                 IN handleRemovedDuplicatesFrom(
                        [e EXCEPT !.store.files.byId[fileId].fileNameDuplicates =
                                      splice1(@, removeIndex)],
                        removedFile, i + 1)

\* Mutant of handleRemovedDuplicates: no teardown.
handleRemovedDuplicates_skip(e, removedFile) == e

handleRemovedDuplicates(e, removedFile) ==
    handleRemovedDuplicatesFrom(e, removedFile, 1)

\* Mutants of selectionAfterDelete: the selection is left as it is, and the
\* selection is always cleared.
selectionAfterDelete_keep(selection, id) == selection
selectionAfterDelete_clear(selection, id) == EmptyString

\* deleteCheckpoint: the selection of the owning file once id is deleted.
selectionAfterDelete(selection, id) ==
    IF selection = id THEN EmptyString ELSE selection

\* Mutants of fileIsEmpty: off by one, and never.
fileIsEmpty_early(file) == Len(file.checkpointIds) <= 1
fileIsEmpty_never(file) == FALSE

\* deleteCheckpoint: the test that the file is now empty of checkpoints.
fileIsEmpty(file) == Len(file.checkpointIds) = 0

\* deleteCheckpoint(id); the returned checkpoint (or undefined) is e.ret.
deleteCheckpoint(e, id) ==
    LET s == e.store
    IN IF e.threw THEN e
       ELSE IF id \notin DOMAIN s.checkpoints.byId
       THEN [e EXCEPT !.ret = Undefined]
       ELSE
         LET checkpoint == s.checkpoints.byId[id]
             cpToRemoveIndex == findIndex(s.checkpoints.allIds, checkpoint.id)
             e1 == [e EXCEPT
                      !.ret = checkpoint,
                      !.store.checkpoints.byId = deleteKey(@, checkpoint.id),
                      !.store.checkpoints.allIds = splice1(@, cpToRemoveIndex)]
         IN IF checkpoint.parent \notin DOMAIN s.files.byId
            THEN e1
            ELSE
              LET file0 == s.files.byId[checkpoint.parent]
                  file  == [file0 EXCEPT
                              !.selection = selectionAfterDelete(@, id),
                              !.checkpointIds = filterOut(@, checkpoint.id)]
                  e2 == [e1 EXCEPT !.store.files.byId[checkpoint.parent] = file]
              IN IF ~fileIsEmpty(file)
                 THEN e2
                 ELSE
                   LET fileToRemoveIndex == findIndex(s.files.allIds, file.id)
                       e3 == [e2 EXCEPT
                                !.store.files.byId = deleteKey(@, file.id),
                                !.store.files.allIds = splice1(@, fileToRemoveIndex),
                                !.detached = setKey(@, checkpoint.parent, file)]
                   IN [handleRemovedDuplicates(e3, file) EXCEPT !.ret = checkpoint]

\* Mutant of clearFileLoop: every second element is skipped, as when the
\* array shrinks under the iterator.
RECURSIVE clearFileLoop_skip(_, _, _)
clearFileLoop_skip(e, checkpointIds, i) ==
    IF e.threw \/ i > Len(checkpointIds) THEN e
    ELSE clearFileLoop_skip(deleteCheckpoint(e, checkpointIds[i]), checkpointIds, i + 2)

\* Mutant of clearFileLoop: a removed notification is fired for every deleted
\* checkpoint.
RECURSIVE clearFileLoop_notify(_, _, _)
clearFileLoop_notify(e, checkpointIds, i) ==
    IF e.threw \/ i > Len(checkpointIds) THEN e
    ELSE LET e1 == deleteCheckpoint(e, checkpointIds[i])
         IN clearFileLoop_notify(IF e1.threw THEN e1 ELSE fire(e1, "removed", e1.ret),
                                 checkpointIds, i + 1)

\* The loop of clearFile over the array file.checkpointIds held when the loop
\* started (deleteCheckpoint replaces the array, it does not change it).
RECURSIVE clearFileLoop(_, _, _)
clearFileLoop(e, checkpointIds, i) ==
    IF e.threw \/ i > Len(checkpointIds) THEN e
    ELSE clearFileLoop(deleteCheckpoint(e, checkpointIds[i]), checkpointIds, i + 1)

\* clearFile(id); the returned File object (in its final state) is e.ret.
clearFile(e, id) ==
    IF id \notin DOMAIN e.store.files.byId
    THEN [e EXCEPT !.ret = Undefined]
    ELSE LET e1 == clearFileLoop(e, e.store.files.byId[id].checkpointIds, 1)
         IN IF e1.threw THEN e1
            ELSE [e1 EXCEPT !.ret =
                    IF id \in DOMAIN e1.detached THEN e1.detached[id]
                    ELSE e1.store.files.byId[id]]

\* Mutant of clearAll: only the checkpoints collection is reset.
clearAll_checkpointsOnly(e) ==
    LET e1 == updateWorkspaceState(
                 [e EXCEPT !.store.checkpoints = createEmptyStore.checkpoints])
    IN [e1 EXCEPT !.ret = e1.store]

\* clearAll(); the returned store is e.ret.
clearAll(e) ==
    LET e1 == updateWorkspaceState([e EXCEPT !.store = createEmptyStore])
    IN [e1 EXCEPT !.ret = e1.store]

\* The labeled block of remove: which item, if any, was removed.
removeItem(e, id) ==
    IF id = EmptyString THEN clearAll(e)
    ELSE IF getFile(e.store, id) # Undefined THEN clearFile(e, id)
    ELSE IF getCheckpoint(e.store, id) # Undefined THEN deleteCheckpoint(e, id)
    ELSE [e EXCEPT !.ret = Undefined]

\* Mutant of remove: the test of removedItem is missing.
remove_always(e, id) ==
    LET e1 == removeItem(e, id)
    IN IF e1.threw THEN e1
       ELSE updateWorkspaceState(fire(e1, "removed", e1.ret))

\* remove(id?): a missing id and '' are both !id.
remove(e, id) ==
    LET e1 == removeItem(e, id)
    IN IF e1.threw \/ e1.ret = Undefined THEN e1
       ELSE updateWorkspaceState(fire(e1, "removed", e1.ret))

\* The File object add creates for a document without entry.
newFile(documentId) ==
    [ id                 |-> documentId,
      name               |-> basename(documentId),
      extraName          |-> extraNameOf(documentId),
      fileNameDuplicates |-> <<>>,
      checkpointIds      |-> <<>>,
      selection          |-> EmptyString ]

\* Mutant of addFile: the test of the looked-up file is missing, a File is
\* created at every add.
addFile_always(e, documentId) ==
    LET e1 == handleNewDuplicates(e, newFile(documentId))
    IN IF e1.threw THEN e1
       ELSE [e1 EXCEPT
               !.store.files.byId = setKey(@, e1.ret.id, e1.ret),
               !.store.files.allIds = push(@, e1.ret.id)]

\* The first half of add: create the File entry when there is none.
addFile(e, documentId) ==
    IF documentId \in DOMAIN e.store.files.byId THEN e
    ELSE LET e1 == handleNewDuplicates(e, newFile(documentId))
         IN IF e1.threw THEN e1
            ELSE [e1 EXCEPT
                    !.store.files.byId = setKey(@, e1.ret.id, e1.ret),
                    !.store.files.allIds = push(@, e1.ret.id)]

\* Mutant of add: the notification is fired before the checkpoint is stored.
add_fireFirst(e, documentId, name, timestamp, text) ==
    LET e1 == addFile(e, documentId)
        checkpoint == [ parent    |-> documentId,
                        timestamp |-> timestamp,
                        text      |-> text,
                        name      |-> name,
                        id        |-> toString(timestamp) ]
    IN IF e1.threw THEN e1
       ELSE updateWorkspaceState(
              [fire(e1, "added", checkpoint) EXCEPT
                 !.store.checkpoints.byId = setKey(@, checkpoint.id, checkpoint),
                 !.store.checkpoints.allIds = push(@, checkpoint.id),
                 !.store.files.byId[checkpoint.parent].checkpointIds =
                      push(@, checkpoint.id)])

\* add(document, name, timestamp), text being what document.getText() returns,
\* or GetTextThrows when it raises: the File is then already stored.
add(e, documentId, name, timestamp, text) ==
    LET e1 == addFile(e, documentId)
        checkpoint == [ parent    |-> documentId,
                        timestamp |-> timestamp,
                        text      |-> text,
                        name      |-> name,
                        id        |-> toString(timestamp) ]
    IN IF e1.threw THEN e1
       ELSE IF text = GetTextThrows THEN [e1 EXCEPT !.threw = TRUE]
       ELSE updateWorkspaceState(fire(
              [e1 EXCEPT
                 !.store.checkpoints.byId = setKey(@, checkpoint.id, checkpoint),
                 !.store.checkpoints.allIds = push(@, checkpoint.id),
                 !.store.files.byId[checkpoint.parent].checkpointIds =
                      push(@, checkpoint.id)],
              "added", checkpoint))

\* Mutant of renameCheckpoint: the name goes to every checkpoint of the same
\* file.
renameCheckpoint_siblings(e, id, newName) ==
    IF id \notin DOMAIN e.store.checkpoints.byId
    THEN [e EXCEPT !.threw = TRUE]
    ELSE LET parent == e.store.checkpoints.byId[id].parent
             e1 == [e EXCEPT !.store.checkpoints.byId =
                      [c \in DOMAIN @ |->
                         IF @[c].parent = parent
                         THEN [@[c] EXCEPT !.name = newName] ELSE @[c]]]
         IN fire(e1, "updated", e1.store.checkpoints.byId[id])

\* renameCheckpoint(id, newName): an unknown id raises a TypeError on
\* checkpoint.name.
renameCheckpoint(e, id, newName) ==
    IF id \notin DOMAIN e.store.checkpoints.byId
    THEN [e EXCEPT !.threw = TRUE]
    ELSE LET e1 == [e EXCEPT !.store.checkpoints.byId[id].name = newName]
         IN fire(e1, "updated", e1.store.checkpoints.byId[id])

\* Mutant of selectCheckpoint: the test of the checkpoint is missing, reading
\* checkpoint.parent of undefined raises a TypeError.
selectCheckpoint_noCheck(e, checkpointId) ==
    IF checkpointId \notin DOMAIN e.store.checkpoints.byId
    THEN [e EXCEPT !.threw = TRUE]
    ELSE LET checkpoint == e.store.checkpoints.byId[checkpointId]
         IN IF checkpoint.parent \notin DOMAIN e.store.files.byId
            THEN [e EXCEPT !.threw = TRUE]
            ELSE LET e1 == [e EXCEPT
                     !.store.files.byId[checkpoint.parent].selection = checkpoint.id]
                 IN fire(e1, "updated", e1.store.files.byId[checkpoint.parent])

\* Mutant of selectCheckpoint: one selection in the whole store, the other
\* files lose theirs.
selectCheckpoint_exclusive(e, checkpointId) ==
    IF checkpointId \notin DOMAIN e.store.checkpoints.byId THEN e
    ELSE LET checkpoint == e.store.checkpoints.byId[checkpointId]
         IN IF checkpoint.parent \notin DOMAIN e.store.files.byId
            THEN [e EXCEPT !.threw = TRUE]
            ELSE LET e1 == [e EXCEPT !.store.files.byId =
                              [f \in DOMAIN @ |->
                                 [@[f] EXCEPT !.selection =
                                    IF f = checkpoint.parent THEN checkpoint.id
                                    ELSE EmptyString]]]
                 IN fire(e1, "updated", e1.store.files.byId[checkpoint.parent])

\* selectCheckpoint(checkpointId): a checkpoint whose parent has no File entry
\* raises a TypeError on file.selection.
selectCheckpoint(e, checkpointId) ==
    IF checkpointId \notin DOMAIN e.store.checkpoints.byId THEN e
    ELSE LET checkpoint == e.store.checkpoints.byId[checkpointId]
         IN IF checkpoint.parent \notin DOMAIN e.store.files.byId
            THEN [e EXCEPT !.threw = TRUE]
            ELSE LET e1 == [e EXCEPT
                     !.store.files.byId[checkpoint.parent].selection = checkpoint.id]
                 IN fire(e1, "updated", e1.store.files.byId[checkpoint.parent])

\* clearSelectionFromFile(fileId)
clearSelectionFromFile(e, fileId) ==
    IF fileId \notin DOMAIN e.store.files.byId THEN e
    ELSE LET e1 == [e EXCEPT !.store.files.byId[fileId].selection = EmptyString]
         IN fire(e1, "updated", e1.store.files.byId[fileId])

\* Mutant of getCheckpoints: the file id is not looked at.
getCheckpoints_all(store, fileId) ==
    LET checkpointsIds == store.checkpoints.allIds
    IN [i \in 1..Len(checkpointsIds) |-> getCheckpoint(store, checkpointsIds[i])]

\* getCheckpoints(fileId?): undefined elements for ids without entry.
getCheckpoints(store, fileId) ==
    LET checkpointsIds ==
            IF fileId = EmptyString THEN store.checkpoints.allIds
            ELSE IF fileId \in DOMAIN store.files.byId
                 THEN store.files.byId[fileId].checkpointIds
                 ELSE <<>>
    IN [i \in 1..Len(checkpointsIds) |-> getCheckpoint(store, checkpointsIds[i])]

\* Mutant of versionMissing: every loaded store is taken for a legacy one.
versionMissing_always(store) == TRUE

\* !checkpointStore.version: the version is missing or 0.
versionMissing(store) == "version" \notin DOMAIN store \/ store.version = 0

\* Mutant of moveFile: the old entry is not deleted.
moveFile_keepOld(byId, id, newId) ==
    setKey(byId, newId, [byId[id] EXCEPT !.id = newId])

\* The body of the conversion of one file id: the entry is stored under the
\* new key, its id field set, the old key deleted.
moveFile(byId, id, newId) ==
    deleteKey(setKey(byId, newId, [byId[id] EXCEPT !.id = newId]), id)

\* Mutant of migrateFiles: the first exception ends the conversion of the
\* file ids (the try block around the whole map instead of one callback).
RECURSIVE migrateFiles_abort(_, _)
migrateFiles_abort(files, i) ==
    IF i > Len(files.allIds) THEN files
    ELSE LET id == files.allIds[i]
         IN IF UriFileThrows(id) THEN files
            ELSE LET newId == UriFileToString(id)
                 IN IF id \notin DOMAIN files.byId \/ files.byId[id] = Undefined
                    THEN migrateFiles_abort(
                            [files EXCEPT !.byId = setKey(@, newId, Undefined)], i + 1)
                    ELSE migrateFiles_abort(
                            [files EXCEPT !.byId = moveFile(@, id, newId),
                                          !.allIds[i] = newId], i + 1)

\* files.allIds.map(...) of getWorkspaceSate, from element i on.  An exception
\* in the callback is caught and the old id returned; byId[newId] is then
\* already assigned when the exception comes from files.byId[newId].id.
RECURSIVE migrateFiles(_, _)
migrateFiles(files, i) ==
    IF i > Len(files.allIds) THEN files
    ELSE LET id == files.allIds[i]
         IN IF UriFileThrows(id) THEN migrateFiles(files, i + 1)
            ELSE LET newId == UriFileToString(id)
                 IN IF id \notin DOMAIN files.byId \/ files.byId[id] = Undefined
                    THEN migrateFiles(
                            [files EXCEPT !.byId = setKey(@, newId, Undefined)], i + 1)
                    ELSE migrateFiles(
                            [files EXCEPT !.byId = moveFile(@, id, newId),
                                          !.allIds[i] = newId], i + 1)

\* The loop over checkpoints.allIds of getWorkspaceSate, from element i on.
RECURSIVE migrateCheckpoints(_, _)
migrateCheckpoints(checkpoints, i) ==
    IF i > Len(checkpoints.allIds) THEN checkpoints
    ELSE LET id == checkpoints.allIds[i]
         IN IF \/ id \notin DOMAIN checkpoints.byId
               \/ checkpoints.byId[id] = Undefined
               \/ UriFileThrows(checkpoints.byId[id].parent)
            THEN migrateCheckpoints(checkpoints, i + 1)
            ELSE migrateCheckpoints(
                    [checkpoints EXCEPT !.byId[id].parent = UriFileToString(@)],
                    i + 1)

\* Mutant of getWorkspaceSate: the migration leaves the version as it was.
getWorkspaceSate_keepVersion(e, blob) ==
    LET checkpointStore0 == IF blob = Undefined THEN createEmptyStore ELSE blob
    IN IF ~versionMissing(checkpointStore0)
       THEN [e EXCEPT !.ret = checkpointStore0]
       ELSE [updateWorkspaceState(e) EXCEPT !.ret =
               [ version     |-> 0,
                 files       |-> migrateFiles(checkpointStore0.files, 1),
                 checkpoints |-> migrateCheckpoints(checkpointStore0.checkpoints, 1) ]]

\* getWorkspaceSate(): blob is the value of the checkpointsStore key, Undefined
\* when there is none.  e.store is this.checkpointStore, which the constructor
\* assigns only once getWorkspaceSate has returned; the returned store is e.ret.
getWorkspaceSate(e, blob) ==
    LET checkpointStore0 == IF blob = Undefined THEN createEmptyStore ELSE blob
    IN IF ~versionMissing(checkpointStore0)
       THEN [e EXCEPT !.ret = checkpointStore0]
       ELSE [updateWorkspaceState(e) EXCEPT !.ret =
               [ version     |-> 1,
                 files       |-> migrateFiles(checkpointStore0.files, 1),
                 checkpoints |-> migrateCheckpoints(checkpointStore0.checkpoints, 1) ]]

(* ------------------------------------------------------------ the state *)

VARIABLES
    checkpointStore,    \* this.checkpointStore
    fired,              \* the notifications fired by the last call, in order
    writes,             \* the stores the last call passed to workspaceState.update
                        \* whose write has not settled
    warnings,           \* the messages window.showWarningMessage showed in the
                        \* last step
    currentCheckpointContext,   \* this.currentCheckpointContext
    threw,              \* whether the last call raised an exception
    lastOp,             \* history: the last call, see Call and Add
    before,             \* history: sizes of the store when the last call began
    addCount,           \* history: the number of add calls
    usedTimestamps,     \* history: the timestamps passed to add
    addOrder,           \* history: the ids of the stored checkpoints, in the
                        \* order of the add calls that created them
    persisted,          \* history: the value of the checkpointsStore key of
                        \* workspaceState that the constructor read
    activeEditor,       \* CheckpointsController.activeEditor: its document
    prompt              \* the invocation of onAddCheckpoint that awaits the
                        \* input box, Undefined when there is none

vars == <<checkpointStore, fired, writes, warnings, currentCheckpointContext,
          threw, lastOp, before, addCount, usedTimestamps, addOrder, persisted,
          activeEditor, prompt>>

\* The ids passed to remove: none (''), documents, checkpoint ids.
CheckpointIds == {toString(t) : t \in Timestamps}
Ids == {EmptyString} \cup Documents \cup CheckpointIds

\* The ids passed where a checkpoint id is expected and where a file id is:
\* all of these, and one id of the other kind.
CheckpointIdArgs == CheckpointIds \cup {OtherDocument}
FileIdArgs == Documents \cup {toString(MaxTs)}

\* Construction with no persisted store: getWorkspaceSate returns the default.
Init ==
    /\ checkpointStore = createEmptyStore
    /\ fired = <<>>
    /\ writes = <<>>
    /\ warnings = <<>>
    /\ currentCheckpointContext = Undefined
    /\ threw = FALSE
    /\ lastOp = [op |-> "constructor", id |-> EmptyString]
    /\ before = [files |-> 0, checkpoints |-> 0, selections |-> 0]
    /\ addCount = 0
    /\ usedTimestamps = {}
    /\ addOrder = <<>>
    /\ activeEditor = Undefined
    /\ prompt = Undefined
    /\ persisted = Undefined

\* The files of a store that have a selected checkpoint.
Selected(store) ==
    {f \in DOMAIN store.files.byId : store.files.byId[f].selection # EmptyString}

\* The ids of order that are (still) ids of stored checkpoints.
StillStored(order, store) ==
    SelectSeq(order, LAMBDA id : id \in DOMAIN store.checkpoints.byId)

\* The effect of one call on the state.
Finish(e) ==
    /\ checkpointStore' = e.store
    /\ fired' = e.fired
    /\ writes' = e.writes
    /\ warnings' = <<>>
    /\ threw' = e.threw
    /\ before' = [files       |-> Len(checkpointStore.files.allIds),
                  checkpoints |-> Len(checkpointStore.checkpoints.allIds),
                  selections  |-> Cardinality(Selected(checkpointStore))]
    /\ UNCHANGED <<persisted, currentCheckpointContext>>

\* Stands in lastOp for any id argument that names nothing in the store.
UnknownId == <<"?">>

\* The record of a call: its name and its id argument ('' when missing); ids
\* that name no stored File or Checkpoint are all recorded as UnknownId.
Call(op, id) ==
    [ op |-> op,
      id |-> IF \/ id = EmptyString
                \/ id \in DOMAIN checkpointStore.files.byId
                \/ id \in DOMAIN checkpointStore.checkpoints.byId
             THEN id ELSE UnknownId ]

\* The effect of a call of add on the state but lastOp and the controller.
AddEffect(documentId, name, timestamp, text) ==
    /\ addCount' = addCount + 1
    /\ usedTimestamps' = usedTimestamps \cup {timestamp}
    /\ Finish(add(Exec(checkpointStore), documentId, name, timestamp, text))
    /\ addOrder' = StillStored(Append(addOrder, toString(timestamp)), checkpointStore')

Add(documentId, name, timestamp, text) ==
    /\ lastOp' = [op |-> "add", id |-> documentId, timestamp |-> timestamp]
    /\ AddEffect(documentId, name, timestamp, text)
    /\ UNCHANGED <<activeEditor, prompt>>

Remove(id) ==
    /\ lastOp' = Call("remove", id)
    /\ UNCHANGED <<addCount, usedTimestamps, activeEditor, prompt>>
    /\ Finish(remove(Exec(checkpointStore), id))
    /\ addOrder' = StillStored(addOrder, checkpointStore')

RenameCheckpoint(id, newName) ==
    /\ lastOp' = Call("renameCheckpoint", id)
    /\ UNCHANGED <<addCount, usedTimestamps, activeEditor, prompt>>
    /\ Finish(renameCheckpoint(Exec(checkpointStore), id, newName))
    /\ addOrder' = StillStored(addOrder, checkpointStore')

SelectCheckpoint(id) ==
    /\ lastOp' = Call("selectCheckpoint", id)
    /\ UNCHANGED <<addCount, usedTimestamps, activeEditor, prompt>>
    /\ Finish(selectCheckpoint(Exec(checkpointStore), id))
    /\ addOrder' = StillStored(addOrder, checkpointStore')

ClearSelectionFromFile(id) ==
    /\ lastOp' = Call("clearSelectionFromFile", id)
    /\ UNCHANGED <<addCount, usedTimestamps, activeEditor, prompt>>
    /\ Finish(clearSelectionFromFile(Exec(checkpointStore), id))
    /\ addOrder' = StillStored(addOrder, checkpointStore')

\* The timestamps of the checkpoints the File of a document lists.
TimestampsIn(documentId) ==
    IF documentId \notin DOMAIN checkpointStore.files.byId THEN {}
    ELSE {t \in Timestamps :
            toString(t) \in Range(checkpointStore.files.byId[documentId].checkpointIds)}

\* add with a timestamp no earlier add used (Date.now() of distinct instants),
\* for the documents that share a base name.
AddFresh ==
    /\ addCount < MaxAdds
    /\ \E d \in SameNameDocuments, n \in Names, x \in Texts :
         \E t \in Timestamps \ usedTimestamps : Add(d, n, t, x)

\* add with any timestamp.
AddAny ==
    /\ addCount < MaxAdds
    /\ \E d \in Documents, n \in Names, t \in Timestamps, x \in Texts :
         Add(d, n, t, x)

\* add with a timestamp that no checkpoint of the same document has.
AddFreshInFile ==
    /\ addCount < MaxAdds
    /\ \E d \in Documents, n \in Names, x \in Texts :
         \E t \in Timestamps \ TimestampsIn(d) : Add(d, n, t, x)

RemoveOp == \E id \in Ids : Remove(id)
RenameOp == \E id \in CheckpointIdArgs, n \in Names : RenameCheckpoint(id, n)
SelectOp == \E id \in CheckpointIdArgs : SelectCheckpoint(id)
ClearSelectionOp == \E id \in FileIdArgs : ClearSelectionFromFile(id)

Next == AddFresh \/ RemoveOp \/ RenameOp \/ SelectOp \/ ClearSelectionOp
Spec == Init /\ [][Next]_vars

\* add with a fresh timestamp and any text, for one document.
AddText ==
    /\ addCount < MaxNamedAdds
    /\ \E d \in {OtherDocument}, n \in Names, x \in NewTexts :
         \E t \in Timestamps \ usedTimestamps : Add(d, n, t, x)

RenameNewOp == \E id \in CheckpointIdArgs, n \in NewNames : RenameCheckpoint(id, n)

\* All operations, with texts that differ and names that change.
NextRename == AddText \/ RemoveOp \/ RenameNewOp \/ SelectOp \/ ClearSelectionOp
SpecRename == Init /\ [][NextRename]_vars

\* add with any timestamp, for the documents that share a base name.
AddSameName ==
    /\ addCount < MaxAdds
    /\ \E d \in SameNameDocuments, n \in Names, t \in Timestamps, x \in Texts :
         Add(d, n, t, x)

\* Sequences of add, timestamps repeated at will, and selections.
NextAddSelect == AddSameName \/ SelectOp
SpecAddSelect == Init /\ [][NextAddSelect]_vars

\* Any sequence of add and remove, timestamps repeated at will.
NextAddRemove == AddAny \/ RemoveOp
SpecAddRemove == Init /\ [][NextAddRemove]_vars

\* Sequences of add only, timestamps distinct within each document.
NextAdds == AddFreshInFile
SpecAdds == Init /\ [][NextAdds]_vars

\* add with a fresh timestamp for two documents of the same name, one in a
\* directory with a long name.
AddLong ==
    /\ addCount < MaxNamedAdds
    /\ \E d \in {OtherDocument, LongDocument}, n \in Names, x \in Texts :
         \E t \in Timestamps \ usedTimestamps : Add(d, n, t, x)

\* add and remove, with a long directory name.
NextLong == AddLong \/ RemoveOp
SpecLong == Init /\ [][NextLong]_vars

\* add with a fresh timestamp, where reading the text of the document may
\* fail.
AddRead ==
    /\ addCount < MaxAdds
    /\ \E d \in Documents, n \in Names, x \in Texts \cup {GetTextThrows} :
         \E t \in Timestamps \ usedTimestamps : Add(d, n, t, x)

\* add and remove, with text reads that fail.
NextRead == AddRead \/ RemoveOp
SpecRead == Init /\ [][NextRead]_vars

(* ------------------------------------------------------- load and restart *)

\* The store after the add calls of adds, in order, on store.
RECURSIVE addAll(_, _)
addAll(store, adds) ==
    IF adds = <<>> THEN store
    ELSE addAll(add(Exec(store), adds[1][1], "v1", adds[1][2], "t1").store, Tail(adds))

\* The stores that a session of the first version left: file ids are paths.
PathStores ==
    { addAll(createEmptyStore, adds) :
        adds \in UNION { [1..n -> LegacyPaths \X Timestamps] : n \in 0..MaxNamedAdds } }

\* The stores of a first-version session, whose version is missing or 0.
LegacyBlobs ==
    { [files |-> st.files, checkpoints |-> st.checkpoints] : st \in PathStores }
    \cup { [st EXCEPT !.version = 0] : st \in PathStores }

\* The stores that a session of the current version left after it had loaded
\* a legacy store: their version is 1.
MigratedBlobs ==
    { getWorkspaceSate(Exec(Undefined), blob).ret : blob \in LegacyBlobs }

\* The values the checkpointsStore key can hold at activation.
PersistedBlobs == {Undefined} \cup LegacyBlobs \cup MigratedBlobs

\* The extension is activated, the model not yet constructed.
InitLoad ==
    /\ persisted \in PersistedBlobs
    /\ checkpointStore = Undefined
    /\ fired = <<>>
    /\ writes = <<>>
    /\ warnings = <<>>
    /\ currentCheckpointContext = Undefined
    /\ threw = FALSE
    /\ lastOp = [op |-> "activate", id |-> EmptyString]
    /\ before = [files |-> 0, checkpoints |-> 0, selections |-> 0]
    /\ addCount = 0
    /\ usedTimestamps = {}
    /\ addOrder = <<>>
    /\ activeEditor = Undefined
    /\ prompt = Undefined

\* constructor: this.checkpointStore = this.getWorkspaceSate() with blob the
\* value of the key.
Construction(blob) ==
    LET e == getWorkspaceSate(Exec(Undefined), blob)
    IN /\ checkpointStore' = e.ret
       /\ fired' = e.fired
       /\ writes' = e.writes
       /\ warnings' = <<>>
       /\ currentCheckpointContext' = Undefined
       /\ threw' = e.threw
       /\ lastOp' = [op |-> "constructor", id |-> EmptyString]
       /\ persisted' = blob
       /\ UNCHANGED <<before, addCount, usedTimestamps, addOrder, activeEditor,
                      prompt>>

Construct ==
    /\ lastOp.op = "activate"
    /\ Construction(persisted)

\* An object as JSON carries it: a property whose value is undefined is left
\* out.
definedKeys(obj) ==
    [k \in {j \in DOMAIN obj : obj[j] # Undefined} |-> obj[k]]

\* What workspaceState.get reads in a later session for a value that was
\* passed to workspaceState.update: the value goes through JSON.  update with
\* undefined removes the key.
stored(value) ==
    IF value = Undefined THEN Undefined
    ELSE [value EXCEPT !.files.byId = definedKeys(@),
                       !.checkpoints.byId = definedKeys(@)]

\* The value of the key once the writes of the last call are done.
Slot == IF writes = <<>> THEN persisted ELSE stored(writes[Len(writes)])

\* The window is closed and opened again with no store operation since the
\* construction: a new model is constructed from the slot.
Restart ==
    /\ lastOp.op = "constructor"
    /\ Construction(Slot)

NextLoad == Construct \/ Restart
SpecLoad == InitLoad /\ [][NextLoad]_vars

\* add with any timestamp, for the documents that share a base name, in a
\* short session.
AddFew ==
    /\ addCount < MaxNamedAdds
    /\ \E d \in SameNameDocuments, n \in Names, t \in Timestamps, x \in Texts :
         Add(d, n, t, x)

\* The window is closed and opened again right after an add or a remove that
\* wrote the store: a new model is constructed from the slot.
Reload ==
    /\ lastOp.op \in {"add", "remove"}
    /\ writes # <<>>
    /\ Construction(Slot)

\* Sessions of add and remove, each ended at will after a call that wrote.
NextReload == AddFew \/ RemoveOp \/ Reload
SpecReload == Init /\ [][NextReload]_vars

\* Three documents of the same base name.
ThreeSameName == SameNameDocuments \cup { <<"/", "c", "/", "x">> }

\* The adds of one checkpoint to each of two or three of these documents, in
\* any order, with the latest timestamps.
OneAddEach ==
    { adds \in UNION { [1..n -> ThreeSameName \X Timestamps] : n \in 2..3 } :
        \A i, j \in DOMAIN adds :
            /\ adds[i][2] = MaxTs - (i - 1)
            /\ (i # j => adds[i][1] # adds[j][1]) }

\* The store without the reference to file a in the fileNameDuplicates of
\* file b.
withoutReference(store, b, a) ==
    [store EXCEPT !.files.byId[b].fileNameDuplicates = filterOut(@, a)]

\* Stores of version 1 in the key in which one file is named as duplicate by
\* a file that it does not name itself.
AsymmetricBlobs ==
    UNION { { withoutReference(st, pair[1], pair[2]) :
                pair \in { q \in (DOMAIN st.files.byId) \X (DOMAIN st.files.byId) :
                             q[1] # q[2] } } :
            st \in { addAll(createEmptyStore, adds) : adds \in OneAddEach } }

\* The extension is activated with such a store in the key.
InitAsymmetric ==
    /\ persisted \in AsymmetricBlobs
    /\ checkpointStore = Undefined
    /\ fired = <<>>
    /\ writes = <<>>
    /\ warnings = <<>>
    /\ currentCheckpointContext = Undefined
    /\ threw = FALSE
    /\ lastOp = [op |-> "activate", id |-> EmptyString]
    /\ before = [files |-> 0, checkpoints |-> 0, selections |-> 0]
    /\ addCount = 0
    /\ usedTimestamps = {}
    /\ addOrder = <<>>
    /\ activeEditor = Undefined
    /\ prompt = Undefined

\* remove on the constructed model.
RemoveLoaded ==
    /\ lastOp.op # "activate"
    /\ RemoveOp

\* The store is loaded, then files and checkpoints are removed.
NextAsymmetric == Construct \/ RemoveLoaded
SpecAsymmetric == InitAsymmetric /\ [][NextAsymmetric]_vars

\* The extension is activated with a store of the first version in the key.
InitMigrate ==
    /\ persisted \in LegacyBlobs
    /\ checkpointStore = Undefined
    /\ fired = <<>>
    /\ writes = <<>>
    /\ warnings = <<>>
    /\ currentCheckpointContext = Undefined
    /\ threw = FALSE
    /\ lastOp = [op |-> "activate", id |-> EmptyString]
    /\ before = [files |-> 0, checkpoints |-> 0, selections |-> 0]
    /\ addCount = 0
    /\ usedTimestamps = {}
    /\ addOrder = <<>>
    /\ activeEditor = Undefined
    /\ prompt = Undefined

\* The legacy store is loaded and migrated, then files and checkpoints are
\* removed.
NextMigrate == Construct \/ RemoveLoaded
SpecMigrate == InitMigrate /\ [][NextMigrate]_vars

\* The store operations on the constructed model; add once, for one document.
AddLoaded ==
    /\ lastOp.op # "activate"
    /\ addCount = 0
    /\ \E n \in Names, t \in Timestamps, x \in Texts : Add(OtherDocument, n, t, x)

RenameLoaded ==
    /\ lastOp.op # "activate"
    /\ RenameOp

SelectLoaded ==
    /\ lastOp.op # "activate"
    /\ SelectOp

ClearSelectionLoaded ==
    /\ lastOp.op # "activate"
    /\ ClearSelectionOp

\* The extension is activated with no store in the key, or one of at most one
\* checkpoint.
InitSession ==
    /\ InitLoad
    /\ (persisted # Undefined => Len(persisted.checkpoints.allIds) <= 1)

\* A session: the model is constructed from the value of the key, then the
\* store operations are called.
NextSession ==
    \/ Construct
    \/ AddLoaded
    \/ RemoveLoaded
    \/ RenameLoaded
    \/ SelectLoaded
    \/ ClearSelectionLoaded
SpecSession == InitSession /\ [][NextSession]_vars

\* What the thenable of workspaceState.update can settle with: fulfilled
\* with true or with no value (undefined), depending on the host, or rejected
\* with an error.
WriteOutcomes ==
    { [state |-> "fulfilled", value |-> "true"],
      [state |-> "fulfilled", value |-> "undefined"],
      [state |-> "rejected",  value |-> "error"] }

FailedToUpdate == "Failed to update the checkpoint store to workspace storage."

\* The messages shown when the thenable of updateWorkspaceState settles with
\* outcome: then(success => ...) has a handler for fulfilment only, which
\* warns when success is falsy; a rejection runs no handler.
warningsOnSettled(outcome) ==
    IF outcome.state = "fulfilled" /\ outcome.value \in {"undefined", "false"}
    THEN <<FailedToUpdate>>
    ELSE <<>>

\* The oldest unsettled write of the last call settles with outcome.  An
\* unhandled rejection raises nothing in the call that dispatched the write,
\* which has returned.
Settle(outcome) ==
    /\ lastOp.op # "activate"
    /\ writes # <<>>
    /\ writes' = Tail(writes)
    /\ warnings' = warningsOnSettled(outcome)
    /\ fired' = <<>>
    /\ threw' = FALSE
    /\ lastOp' = [op |-> "then", id |-> EmptyString, outcome |-> outcome]
    /\ UNCHANGED <<checkpointStore, currentCheckpointContext, before, addCount,
                   usedTimestamps, addOrder, persisted, activeEditor, prompt>>

SettleOp == \E outcome \in WriteOutcomes : Settle(outcome)

\* add and remove, and the settling of their writes.
NextSettle == AddText \/ RemoveOp \/ SettleOp
SpecSettle == Init /\ [][NextSettle]_vars

\* The scheme of the documents of the diff view.
checkpointsDocumentView == "checkpointsDocumentView"

\* Uri.toString() of a uri given by scheme, authority, path and fragment; the
\* scheme is kept as one element.  The slashes of the authority are written
\* when there is one and for the scheme file.
UriToString(uri) ==
    <<uri.scheme, ":">>
        \o (IF uri.authority # <<>> \/ uri.scheme = "file"
            THEN <<"/", "/">> ELSE <<>>)
        \o uri.authority \o encodePath(uri.path)
        \o (IF uri.fragment = <<>> THEN <<>> ELSE <<"#">> \o uri.fragment)

\* Uri.file(path).
FileUri(path) ==
    [scheme |-> "file", authority |-> <<>>, path |-> path, fragment |-> <<>>]

\* The uri of the diff view of checkpoint id of the document at path
\* (CheckpointsDocumentView.ts:36).
DiffViewUri(path, id) ==
    [scheme |-> checkpointsDocumentView, authority |-> <<"d", "i", "f", "f">>,
     path |-> path, fragment |-> id]

\* The uris of the documents an editor can show: two files, and the diff
\* view of two checkpoints of one of them.
EditorUris ==
    { FileUri(d) : d \in {OtherDocument, <<"/", "a", "/", "x">>} }
    \cup { DiffViewUri(OtherDocument, toString(t)) : t \in {MaxTs - 1, MaxTs} }

\* set checkpointContext(fileUri).
SetCheckpointContext(fileUri) ==
    /\ lastOp' = [op |-> "checkpointContext", id |-> EmptyString, fileUri |-> fileUri]
    /\ IF /\ currentCheckpointContext # Undefined
          /\ \/ UriToString(currentCheckpointContext) = UriToString(fileUri)
             \/ fileUri.scheme = checkpointsDocumentView
       THEN /\ fired' = <<>>
            /\ UNCHANGED currentCheckpointContext
       ELSE /\ currentCheckpointContext' = fileUri
            /\ fired' = fire(Exec(checkpointStore), "checkpointContext", fileUri).fired
    /\ writes' = <<>>
    /\ warnings' = <<>>
    /\ threw' = FALSE
    /\ UNCHANGED <<checkpointStore, before, addCount, usedTimestamps, addOrder,
                   persisted, activeEditor, prompt>>

SetCheckpointContextOp == \E fileUri \in EditorUris : SetCheckpointContext(fileUri)

\* The editor changes between calls of add and remove.
NextContext == SetCheckpointContextOp \/ AddText \/ RemoveOp
SpecContext == Init /\ [][NextContext]_vars

(* ------------------------------------------------------- the controller *)

\* The documents an editor can show: two saved files and one untitled
\* document; text is what getText returns.
EditorDocuments ==
    { [uri |-> FileUri(d), isUntitled |-> FALSE, text |-> "t1"] :
        d \in {OtherDocument, <<"/", "a", "/", "x">>} }
    \cup { [uri |-> [scheme |-> "untitled", authority |-> <<>>,
                     path |-> <<"U", "n", "t", "i", "t", "l", "e", "d", "-", "1">>,
                     fragment |-> <<>>],
            isUntitled |-> TRUE, text |-> "t1"] }

\* initialize() has found an active editor, set the context to its document
\* and registered the commands.
InitCommand ==
    /\ checkpointStore = createEmptyStore
    /\ fired = <<>>
    /\ writes = <<>>
    /\ warnings = <<>>
    /\ threw = FALSE
    /\ lastOp = [op |-> "initialize", id |-> EmptyString]
    /\ before = [files |-> 0, checkpoints |-> 0, selections |-> 0]
    /\ addCount = 0
    /\ usedTimestamps = {}
    /\ addOrder = <<>>
    /\ persisted = Undefined
    /\ activeEditor \in EditorDocuments
    /\ currentCheckpointContext = activeEditor.uri
    /\ prompt = Undefined

\* A step of the controller that calls no operation of the store.
NoStoreCall(op) ==
    /\ lastOp' = op
    /\ fired' = <<>>
    /\ writes' = <<>>
    /\ warnings' = <<>>
    /\ UNCHANGED <<checkpointStore, currentCheckpointContext, before, addCount,
                   usedTimestamps, addOrder, persisted>>

\* The listener of window.onDidChangeActiveTextEditor: editor is Undefined
\* when the last editor is closed, and reading its document then raises a
\* TypeError after activeEditor is assigned.
OnDidChangeActiveTextEditor(editor) ==
    /\ activeEditor' = editor
    /\ UNCHANGED prompt
    /\ lastOp' = [op |-> "onDidChangeActiveTextEditor", id |-> EmptyString]
    /\ IF editor = Undefined
       THEN /\ threw' = TRUE
            /\ fired' = <<>>
            /\ UNCHANGED currentCheckpointContext
       ELSE /\ threw' = FALSE
            /\ IF /\ currentCheckpointContext # Undefined
                  /\ \/ UriToString(currentCheckpointContext) = UriToString(editor.uri)
                     \/ editor.uri.scheme = checkpointsDocumentView
               THEN /\ fired' = <<>>
                    /\ UNCHANGED currentCheckpointContext
               ELSE /\ currentCheckpointContext' = editor.uri
                    /\ fired' = fire(Exec(checkpointStore), "checkpointContext",
                                     editor.uri).fired
    /\ writes' = <<>>
    /\ warnings' = <<>>
    /\ UNCHANGED <<checkpointStore, before, addCount, usedTimestamps, addOrder,
                   persisted>>

\* new Date(timestamp).toLocaleString(locale): the text of the date is only
\* stored.
defaultName(timestamp) == "date"

\* What showInputBox resolves with: undefined when the box is cancelled, else
\* the string entered.
InputBoxResults ==
    { [entered |-> FALSE, value |-> ""],
      [entered |-> TRUE,  value |-> ""],
      [entered |-> TRUE,  value |-> "v1"] }

\* Mutant of checkpointName: the name is stored as entered.
checkpointName_asEntered(result) == result.value

\* The name onAddCheckpoint passes on for the string entered.
checkpointName(result) ==
    IF result.value = "" THEN "Untitled" ELSE result.value

\* The local helper addCheckpoint(name) of onAddCheckpoint, called in step
\* (at the invocation or when the input box is answered with result): add is
\* called for the document of activeEditor as it is now; an exception of add,
\* or of reading the document of no editor, is caught.
addCheckpoint(name, timestamp, step, result) ==
    IF activeEditor = Undefined
    THEN /\ NoStoreCall([op |-> "onAddCheckpoint", id |-> EmptyString,
                         step |-> step, result |-> result])
         /\ threw' = FALSE
    ELSE /\ lastOp' = [op |-> "add", id |-> UriToString(activeEditor.uri),
                       timestamp |-> timestamp, step |-> step, result |-> result]
         /\ AddEffect(UriToString(activeEditor.uri), name, timestamp,
                      activeEditor.text)

\* The command checkpoints.addCheckpoint up to the await of the input box;
\* ask is the setting askForCheckpointName, timestamp is Date.now().
OnAddCheckpoint(ask, timestamp) ==
    LET op == [op |-> "onAddCheckpoint", id |-> EmptyString, step |-> "invoke",
               result |-> [entered |-> FALSE, value |-> ""]]
    IN /\ prompt = Undefined
       /\ UNCHANGED activeEditor
       /\ IF activeEditor = Undefined
          THEN NoStoreCall(op) /\ threw' = TRUE /\ UNCHANGED prompt
          ELSE IF activeEditor.isUntitled
          THEN NoStoreCall(op) /\ threw' = FALSE /\ UNCHANGED prompt
          ELSE IF ~ask
          THEN /\ addCheckpoint(defaultName(timestamp), timestamp, "invoke", op.result)
               /\ UNCHANGED prompt
          ELSE /\ NoStoreCall(op)
               /\ threw' = FALSE
               /\ prompt' = [timestamp |-> timestamp, document |-> activeEditor]

\* The rest of onAddCheckpoint, once the input box is answered.
OnInputBox(result) ==
    /\ prompt # Undefined
    /\ prompt' = Undefined
    /\ UNCHANGED activeEditor
    /\ IF ~result.entered
       THEN /\ NoStoreCall([op |-> "onAddCheckpoint", id |-> EmptyString,
                            step |-> "answer", result |-> result])
            /\ threw' = FALSE
       ELSE addCheckpoint(checkpointName(result), prompt.timestamp, "answer", result)

OnDidChangeActiveTextEditorOp ==
    \E editor \in EditorDocuments \cup {Undefined} :
        OnDidChangeActiveTextEditor(editor)

OnAddCheckpointOp ==
    /\ addCount < MaxNamedAdds
    /\ \E ask \in BOOLEAN, timestamp \in Timestamps \ usedTimestamps :
         OnAddCheckpoint(ask, timestamp)

OnInputBoxOp == \E result \in InputBoxResults : OnInputBox(result)

\* The commands of the controller and the changes of the active editor.
NextCommand == OnDidChangeActiveTextEditorOp \/ OnAddCheckpointOp \/ OnInputBoxOp
SpecCommand == InitCommand /\ [][NextCommand]_vars

(* -------------------------------------------------------- the tree view *)

\* Uri.fsPath on a POSIX host: the path of the uri, neither scheme nor
\* authority.
fsPath(uri) == uri.path

\* getChildren() for the root with the setting showActiveFileOnly: the nodes
\* of getCheckpoints(checkpointContext.fsPath).
getChildren(store, checkpointContext) ==
    LET checkpoints == getCheckpoints(store, fsPath(checkpointContext))
    IN [i \in 1..Len(checkpoints) |->
            [nodeId |-> checkpoints[i].id, parentId |-> checkpoints[i].parent]]

(* ----------------------------------------------------------- properties *)

Files == checkpointStore.files
Checkpoints == checkpointStore.checkpoints

isCheckpoint(item) == "parent" \in DOMAIN item
isFile(item) == "checkpointIds" \in DOMAIN item
isStore(item) == "version" \in DOMAIN item

NoRepeats(arr) == \A i, j \in 1..Len(arr) : i # j => arr[i] # arr[j]

\* The last call was a remove that fired its notification.
FiredRemoved ==
    lastOp.op = "remove" /\ Len(fired) = 1 /\ fired[1].channel = "removed"

\* The stored checkpoints of file f, in the order they were added.
ChildrenInAddOrder(f) ==
    SelectSeq(addOrder,
              LAMBDA id : id \in DOMAIN Checkpoints.byId
                          /\ Checkpoints.byId[id].parent = f)

\* C1: with pairwise distinct add timestamps, each File's checkpointIds is
\* exactly the sequence of ids of the stored checkpoints whose parent is that
\* File, in the order they were added.
C1_CheckpointIdsAreChildren ==
    \A f \in DOMAIN Files.byId :
        Files.byId[f].checkpointIds = ChildrenInAddOrder(f)

\* C1 witness: three adds and one remove later, a file holds two checkpoints
\* whose creation order is the reverse of their timestamp order.
C1_Witness ==
    /\ addCount = 3
    /\ Len(Checkpoints.allIds) = 2
    /\ \E f \in DOMAIN Files.byId :
         LET ids == Files.byId[f].checkpointIds
         IN /\ Len(ids) = 2
            /\ ids[1] \in DOMAIN Checkpoints.byId
            /\ ids[2] \in DOMAIN Checkpoints.byId
            /\ Checkpoints.byId[ids[1]].timestamp > Checkpoints.byId[ids[2]].timestamp

\* C2: with pairwise distinct add timestamps, files.allIds and
\* checkpoints.allIds have no repeated id and list exactly the keys of
\* files.byId and checkpoints.byId.
C2_AllIdsMatchById ==
    /\ NoRepeats(Files.allIds)
    /\ Range(Files.allIds) = DOMAIN Files.byId
    /\ NoRepeats(Checkpoints.allIds)
    /\ Range(Checkpoints.allIds) = DOMAIN Checkpoints.byId

\* C2 witness: a remove took one of three checkpoints and left two files.
C2_Witness ==
    /\ FiredRemoved
    /\ before.checkpoints = 3
    /\ Len(Checkpoints.allIds) = 2
    /\ Len(Files.allIds) = 2

\* C3: with pairwise distinct add timestamps, every stored checkpoint's parent
\* is the id of a File present in the store.
C3_ParentExists ==
    \A c \in DOMAIN Checkpoints.byId :
        /\ Checkpoints.byId[c].parent \in DOMAIN Files.byId
        /\ Checkpoints.byId[c].parent \in Range(Files.allIds)
        /\ Files.byId[Checkpoints.byId[c].parent].id = Checkpoints.byId[c].parent

\* C3 witness: a file was removed with its checkpoints while the checkpoints
\* of another file stay.
C3_Witness ==
    /\ FiredRemoved
    /\ isFile(fired[1].payload)
    /\ fired[1].payload.id \notin DOMAIN Files.byId
    /\ Checkpoints.allIds # <<>>

\* C5: no File of the store has an empty checkpointIds, and a document has a
\* File exactly while a stored checkpoint has it as parent.
C5_NoEmptyFile ==
    /\ \A f \in DOMAIN Files.byId : Files.byId[f].checkpointIds # <<>>
    /\ \A d \in Documents :
         d \in DOMAIN Files.byId
            <=> \E c \in DOMAIN Checkpoints.byId : Checkpoints.byId[c].parent = d

\* C5 witness: the removal of a file's only checkpoint removed the file, and
\* another file is still there.
C5_Witness ==
    /\ FiredRemoved
    /\ isCheckpoint(fired[1].payload)
    /\ fired[1].payload.parent \notin DOMAIN Files.byId
    /\ before.files = 2
    /\ Len(Files.allIds) = 1

\* Each File's selection is empty or one of its checkpointIds.
SelectionInFile(store) ==
    \A f \in DOMAIN store.files.byId :
        \/ store.files.byId[f].selection = EmptyString
        \/ store.files.byId[f].selection \in Range(store.files.byId[f].checkpointIds)

\* C6: after every operation each File's selection is empty or the id of one
\* of its checkpointIds, and removing the selected checkpoint of a file that
\* stays resets that file's selection to empty.
C6_SelectionValid ==
    [][ /\ SelectionInFile(checkpointStore')
        /\ \A id \in DOMAIN Checkpoints.byId :
             LET f == Checkpoints.byId[id].parent
             IN ( /\ lastOp' = [op |-> "remove", id |-> id]
                  /\ id \notin DOMAIN Files.byId
                  /\ f \in DOMAIN Files.byId
                  /\ Files.byId[f].selection = id
                  /\ f \in DOMAIN Files.byId' )
                => Files.byId'[f].selection = EmptyString ]_vars

\* C6 witness: a checkpoint was removed from a file that stays, the number of
\* files with a selection went from one to zero.
C6_Witness ==
    /\ FiredRemoved
    /\ isCheckpoint(fired[1].payload)
    /\ fired[1].payload.parent \in DOMAIN Files.byId
    /\ before.selections = 1
    /\ Selected(checkpointStore) = {}

\* C4 (as claimed): after any sequence of add calls whose timestamps are
\* distinct within each file, every id of checkpoints.allIds is in exactly one
\* file's checkpointIds, and every stored checkpoint's parent is in
\* files.allIds and lists the checkpoint.
C4_AddKeepsOwnership ==
    /\ \A i \in 1..Len(Checkpoints.allIds) :
         Cardinality({f \in DOMAIN Files.byId :
                        Checkpoints.allIds[i] \in Range(Files.byId[f].checkpointIds)}) = 1
    /\ \A c \in DOMAIN Checkpoints.byId :
         /\ Checkpoints.byId[c].parent \in Range(Files.allIds)
         /\ Checkpoints.byId[c].parent \in DOMAIN Files.byId
         /\ Checkpoints.byId[c].id \in
               Range(Files.byId[Checkpoints.byId[c].parent].checkpointIds)

\* The relation fileNameDuplicates is symmetric and lists stored files only.
DuplicatesSymmetric(store) ==
    \A a \in DOMAIN store.files.byId :
        \A b \in Range(store.files.byId[a].fileNameDuplicates) :
            /\ b \in DOMAIN store.files.byId
            /\ a \in Range(store.files.byId[b].fileNameDuplicates)

\* C7: from the empty store, after any sequence of add and remove the relation
\* fileNameDuplicates is symmetric and has no dangling entry: no remaining
\* file lists a deleted file.
C7_DuplicatesSymmetric ==
    /\ DuplicatesSymmetric(checkpointStore)
    /\ \A a \in DOMAIN Files.byId :
         Range(Files.byId[a].fileNameDuplicates) \subseteq Range(Files.allIds)

\* C7 witness: a file that listed a duplicate was removed; the duplicate is
\* still stored and lists nothing.
C7_Witness ==
    /\ FiredRemoved
    /\ isFile(fired[1].payload)
    /\ fired[1].payload.id \notin DOMAIN Files.byId
    /\ \E b \in Range(fired[1].payload.fileNameDuplicates) :
         /\ b \in DOMAIN Files.byId
         /\ Files.byId[b].fileNameDuplicates = <<>>

\* C8: remove(fileId) of a stored File removes the File and all its
\* checkpoints from byId and allIds, and leaves the other checkpoints as
\* they were.
C8_RemoveFileCascades ==
    [][ \A id \in Documents :
          (lastOp' = [op |-> "remove", id |-> id] /\ id \in DOMAIN Files.byId) =>
             LET owned == Range(Files.byId[id].checkpointIds)
             IN /\ getFile(checkpointStore', id) = Undefined
                /\ id \notin Range(Files.allIds')
                /\ \A c \in owned :
                     /\ getCheckpoint(checkpointStore', c) = Undefined
                     /\ c \notin Range(Checkpoints.allIds')
                /\ \A c \in (DOMAIN Checkpoints.byId) \ owned :
                     /\ c \in DOMAIN Checkpoints.byId'
                     /\ Checkpoints.byId'[c] = Checkpoints.byId[c]
                /\ Checkpoints.allIds' =
                     SelectSeq(Checkpoints.allIds, LAMBDA c : c \notin owned) ]_vars

\* C8 witness: the removal of a file took two checkpoints and left one.
C8_Witness ==
    /\ FiredRemoved
    /\ isFile(fired[1].payload)
    /\ fired[1].payload.id \notin DOMAIN Files.byId
    /\ before.checkpoints = 3
    /\ Len(Checkpoints.allIds) = 1
    /\ Len(Files.allIds) = 1

\* C9: remove(checkpointId) of a file's only checkpoint deletes the File;
\* otherwise the File stays and its checkpointIds lose exactly that id,
\* the order of the others unchanged.
C9_RemoveCheckpoint ==
    [][ \A id \in DOMAIN Checkpoints.byId :
          LET f == Checkpoints.byId[id].parent
          IN ( /\ lastOp' = [op |-> "remove", id |-> id]
               /\ id \notin DOMAIN Files.byId
               /\ f \in DOMAIN Files.byId ) =>
             IF Files.byId[f].checkpointIds = <<id>>
             THEN f \notin DOMAIN Files.byId' /\ f \notin Range(Files.allIds')
             ELSE /\ f \in DOMAIN Files.byId'
                  /\ Files.byId'[f].checkpointIds =
                        SelectSeq(Files.byId[f].checkpointIds, LAMBDA c : c # id)
                  /\ Len(Files.byId'[f].checkpointIds) =
                        Len(Files.byId[f].checkpointIds) - 1 ]_vars

\* C9 witness: one of a file's three checkpoints was removed, its timestamp
\* between those of the two that stay in the file.
C9_Witness ==
    /\ FiredRemoved
    /\ isCheckpoint(fired[1].payload)
    /\ lastOp.id = fired[1].payload.id
    /\ before.checkpoints = 3
    /\ \E f \in DOMAIN Files.byId :
         /\ fired[1].payload.parent = f
         /\ Len(Files.byId[f].checkpointIds) = 2
         /\ \E t1, t2 \in Timestamps :
              /\ t1 < fired[1].payload.timestamp
              /\ fired[1].payload.timestamp < t2
              /\ {toString(t1), toString(t2)} = Range(Files.byId[f].checkpointIds)

\* C10: remove() with no argument leaves files.byId, files.allIds,
\* checkpoints.byId and checkpoints.allIds empty and the version as it was.
C10_RemoveAll ==
    [][ lastOp' = [op |-> "remove", id |-> EmptyString] =>
          /\ DOMAIN Files.byId' = {}
          /\ Files.allIds' = <<>>
          /\ DOMAIN Checkpoints.byId' = {}
          /\ Checkpoints.allIds' = <<>>
          /\ checkpointStore'.version = checkpointStore.version ]_vars

\* C10 witness: remove() ran on a store of two files and three checkpoints.
C10_Witness ==
    /\ FiredRemoved
    /\ lastOp.id = EmptyString
    /\ isStore(fired[1].payload)
    /\ before.files = 2
    /\ before.checkpoints = 3
    /\ Checkpoints.allIds = <<>>
    /\ Files.allIds = <<>>

\* C11 (as claimed): the removed notification of remove() with no argument
\* carries the files and checkpoints the store had immediately before the call.
C11_RemovedAllCarriesPriorStore ==
    [][ lastOp' = [op |-> "remove", id |-> EmptyString] =>
          /\ Len(fired') = 1
          /\ fired'[1].channel = "removed"
          /\ fired'[1].payload.files = Files
          /\ fired'[1].payload.checkpoints = Checkpoints ]_vars

\* C12: remove(id) with a non-empty id that names neither a File nor a
\* Checkpoint leaves the store unchanged, fires nothing, dispatches no write
\* and raises no exception.
C12_RemoveUnknownIsNoOp ==
    [][ lastOp' = [op |-> "remove", id |-> UnknownId] =>
          /\ checkpointStore' = checkpointStore
          /\ fired' = <<>>
          /\ writes' = <<>>
          /\ threw' = FALSE ]_vars

\* C12 witness: remove ran with an unknown id on a store of two files and
\* three checkpoints.
C12_Witness ==
    /\ lastOp = [op |-> "remove", id |-> UnknownId]
    /\ before.checkpoints = 3
    /\ Len(Checkpoints.allIds) = 3
    /\ Len(Files.allIds) = 2

\* C13 (as claimed): renameCheckpoint with an id that is not a stored
\* checkpoint raises no exception, leaves the store unchanged and fires no
\* updated notification.
C13_RenameUnknownIsSilent ==
    [][ lastOp' = [op |-> "renameCheckpoint", id |-> UnknownId] =>
          /\ threw' = FALSE
          /\ checkpointStore' = checkpointStore
          /\ fired' = <<>> ]_vars

\* C14: selectCheckpoint with an id that is not a stored checkpoint, and
\* clearSelectionFromFile with an id that is not a stored File, leave the
\* store (every selection included) unchanged, fire nothing and raise nothing.
C14_SelectionUnknownIsNoOp ==
    [][ ( \/ /\ lastOp'.op = "selectCheckpoint"
              /\ lastOp'.id \notin DOMAIN Checkpoints.byId
          \/ /\ lastOp'.op = "clearSelectionFromFile"
              /\ lastOp'.id \notin DOMAIN Files.byId )
        => /\ checkpointStore' = checkpointStore
           /\ fired' = <<>>
           /\ threw' = FALSE ]_vars

\* C14 witness: clearSelectionFromFile ran with the id of a checkpoint, which
\* is no file id; that checkpoint is still the selection of its file and
\* another file has a selection too.
C14_Witness ==
    /\ lastOp.op = "clearSelectionFromFile"
    /\ lastOp.id \in DOMAIN Checkpoints.byId
    /\ fired = <<>>
    /\ Checkpoints.byId[lastOp.id].parent \in DOMAIN Files.byId
    /\ Files.byId[Checkpoints.byId[lastOp.id].parent].selection = lastOp.id
    /\ Cardinality(Selected(checkpointStore)) = 2

\* C16: selectCheckpoint of a stored checkpoint sets the selection of the
\* owning file to that id and changes nothing else; clearSelectionFromFile of
\* a stored file sets that file's selection to empty and changes nothing
\* else: the selection of another file is never altered.
C16_SelectionFrame ==
    [][ /\ \A id \in DOMAIN Checkpoints.byId :
             lastOp' = [op |-> "selectCheckpoint", id |-> id] =>
                checkpointStore' =
                    [checkpointStore EXCEPT
                        !.files.byId[Checkpoints.byId[id].parent].selection = id]
        /\ \A f \in DOMAIN Files.byId :
             lastOp' = [op |-> "clearSelectionFromFile", id |-> f] =>
                checkpointStore' =
                    [checkpointStore EXCEPT
                        !.files.byId[f].selection = EmptyString] ]_vars

\* C16 witness: selectCheckpoint ran on a file of two checkpoints that already
\* had a selection, while the other file has a selection too.
C16_Witness ==
    /\ lastOp.op = "selectCheckpoint"
    /\ lastOp.id \in DOMAIN Checkpoints.byId
    /\ Len(fired) = 1
    /\ fired[1].channel = "updated"
    /\ before.selections = 2
    /\ Cardinality(Selected(checkpointStore)) = 2
    /\ LET f == Checkpoints.byId[lastOp.id].parent
       IN /\ Len(Files.byId[f].checkpointIds) = 2
          /\ Files.byId[f].selection = lastOp.id

\* C15: with pairwise distinct add timestamps, no operation changes the id,
\* parent, timestamp or text of a checkpoint that stays stored, and
\* renameCheckpoint of a stored checkpoint changes that checkpoint's name and
\* nothing else of the store.
C15_CheckpointImmutable ==
    [][ /\ \A c \in (DOMAIN Checkpoints.byId) \cap (DOMAIN Checkpoints.byId') :
             /\ Checkpoints.byId'[c].id = Checkpoints.byId[c].id
             /\ Checkpoints.byId'[c].parent = Checkpoints.byId[c].parent
             /\ Checkpoints.byId'[c].timestamp = Checkpoints.byId[c].timestamp
             /\ Checkpoints.byId'[c].text = Checkpoints.byId[c].text
        /\ \A id \in DOMAIN Checkpoints.byId :
             lastOp' = [op |-> "renameCheckpoint", id |-> id] =>
                checkpointStore' =
                    [checkpointStore EXCEPT
                        !.checkpoints.byId[id].name = Checkpoints.byId'[id].name] ]_vars

\* C15 witness: a checkpoint was renamed to a name add never gives, while a
\* checkpoint of the same file with another text keeps the name add gave it.
C15_Witness ==
    /\ lastOp.op = "renameCheckpoint"
    /\ lastOp.id \in DOMAIN Checkpoints.byId
    /\ Len(fired) = 1
    /\ fired[1].payload = Checkpoints.byId[lastOp.id]
    /\ Checkpoints.byId[lastOp.id].name \notin Names
    /\ \E c \in DOMAIN Checkpoints.byId :
         /\ Checkpoints.byId[c].parent = Checkpoints.byId[lastOp.id].parent
         /\ Checkpoints.byId[c].name \in Names
         /\ Checkpoints.byId[c].text # Checkpoints.byId[lastOp.id].text

\* C18 (as claimed): every successful add, remove, renameCheckpoint,
\* selectCheckpoint and clearSelectionFromFile dispatches a persistence write,
\* and the last store it hands to the slot is the store after the operation.
C18_EveryMutationPersists ==
    ( /\ lastOp.op \in {"add", "remove", "renameCheckpoint",
                        "selectCheckpoint", "clearSelectionFromFile"}
      /\ ~threw
      /\ fired # <<>> )
    => /\ writes # <<>>
       /\ writes[Len(writes)] = checkpointStore

\* C17: add stores one checkpoint whose id is the decimal string of the given
\* timestamp; for a document without File it creates exactly one File, for a
\* document with a File it creates none, appends the new id at the end of that
\* File's checkpointIds and leaves the rest of that File and every other File
\* unchanged.
C17_AddFrame ==
    [][ lastOp'.op = "add" =>
          LET d  == lastOp'.id
              id == toString(lastOp'.timestamp)
          IN /\ Checkpoints.allIds' = Append(Checkpoints.allIds, id)
             /\ DOMAIN Checkpoints.byId' = (DOMAIN Checkpoints.byId) \cup {id}
             /\ Checkpoints.byId'[id].id = id
             /\ Checkpoints.byId'[id].parent = d
             /\ Checkpoints.byId'[id].timestamp = lastOp'.timestamp
             /\ \A c \in (DOMAIN Checkpoints.byId) \ {id} :
                  Checkpoints.byId'[c] = Checkpoints.byId[c]
             /\ IF d \notin DOMAIN Files.byId
                THEN /\ Files.allIds' = Append(Files.allIds, d)
                     /\ DOMAIN Files.byId' = (DOMAIN Files.byId) \cup {d}
                     /\ Files.byId'[d].id = d
                     /\ Files.byId'[d].checkpointIds = <<id>>
                ELSE /\ Files.allIds' = Files.allIds
                     /\ Files.byId' =
                          [Files.byId EXCEPT ![d].checkpointIds = Append(@, id)] ]_vars

\* C17 witness: add ran for a document whose File has a selection and a
\* duplicate; the File now lists two checkpoints and there are still two files.
C17_Witness ==
    /\ lastOp.op = "add"
    /\ before.files = 2
    /\ Len(Files.allIds) = 2
    /\ lastOp.id \in DOMAIN Files.byId
    /\ Files.byId[lastOp.id].selection # EmptyString
    /\ Files.byId[lastOp.id].fileNameDuplicates # <<>>
    /\ Len(Files.byId[lastOp.id].checkpointIds) = 2

\* A blob of the first store version.
IsLegacy(blob) == blob # Undefined /\ versionMissing(blob)

\* C19 (as claimed): after a construction that loaded a legacy store, the
\* slot holds the migrated store, and the next construction, with no store
\* operation in between, yields that migrated store.
C19_MigrationIsPersisted ==
    [][ (lastOp.op = "constructor" /\ lastOp'.op = "constructor"
         /\ IsLegacy(persisted))
        => /\ persisted' = checkpointStore
           /\ checkpointStore' = checkpointStore ]_vars

\* A blob in which allIds and byId agree, without repeated id, each File's id
\* is its key and each checkpoint's parent is a File.
Consistent(blob) ==
    /\ NoRepeats(blob.files.allIds)
    /\ Range(blob.files.allIds) = DOMAIN blob.files.byId
    /\ NoRepeats(blob.checkpoints.allIds)
    /\ Range(blob.checkpoints.allIds) = DOMAIN blob.checkpoints.byId
    /\ \A f \in DOMAIN blob.files.byId : blob.files.byId[f].id = f
    /\ \A c \in DOMAIN blob.checkpoints.byId :
         blob.checkpoints.byId[c].parent \in DOMAIN blob.files.byId

\* Every file id of the blob converts, and distinct ids convert to distinct ids.
ConvertsOneToOne(blob) ==
    \A a, b \in DOMAIN blob.files.byId :
        /\ ~UriFileThrows(a)
        /\ (a # b => UriFileToString(a) # UriFileToString(b))

\* C20: the construction from a consistent legacy store whose ids all convert,
\* one to one, yields a store of version 1 whose files.allIds is the old one
\* converted in place, whose files.byId has exactly the converted keys and no
\* old key, each File's id being its key, where every checkpoint's parent is
\* the converted old parent and checkpoint ids, names, texts and the files'
\* checkpointIds are as they were.
C20_MigrationConvertsIds ==
    ( /\ lastOp.op = "constructor"
      /\ IsLegacy(persisted)
      /\ Consistent(persisted)
      /\ ConvertsOneToOne(persisted) )
    => LET old == persisted
           new == checkpointStore
       IN /\ new.version = 1
          /\ new.files.allIds =
                [i \in 1..Len(old.files.allIds) |-> UriFileToString(old.files.allIds[i])]
          /\ DOMAIN new.files.byId =
                {UriFileToString(f) : f \in DOMAIN old.files.byId}
          /\ (DOMAIN new.files.byId) \cap (DOMAIN old.files.byId) = {}
          /\ \A f \in DOMAIN old.files.byId :
                LET file == new.files.byId[UriFileToString(f)]
                IN /\ file.id = UriFileToString(f)
                   /\ file.name = old.files.byId[f].name
                   /\ file.checkpointIds = old.files.byId[f].checkpointIds
          /\ new.checkpoints.allIds = old.checkpoints.allIds
          /\ DOMAIN new.checkpoints.byId = DOMAIN old.checkpoints.byId
          /\ \A c \in DOMAIN old.checkpoints.byId :
                new.checkpoints.byId[c] =
                    [old.checkpoints.byId[c] EXCEPT !.parent = UriFileToString(@)]

\* C20 witness: the construction migrated a consistent store of two files of
\* the same name, one with a path that gets encoded, and two checkpoints.
C20_Witness ==
    /\ lastOp.op = "constructor"
    /\ IsLegacy(persisted)
    /\ Consistent(persisted)
    /\ ConvertsOneToOne(persisted)
    /\ Len(persisted.checkpoints.allIds) = 2
    /\ persisted.files.allIds = << <<"/", "b", "/", "x">>, <<"/", "a", " ", "x">> >>
    /\ checkpointStore.files.allIds # persisted.files.allIds
    /\ writes # <<>>

\* The id as the migration leaves it: converted, or as it was when the
\* conversion throws.
Migrated(id) == IF UriFileThrows(id) THEN id ELSE UriFileToString(id)

\* The file ids of the blob that convert do so to distinct ids.
ConvertedIdsDistinct(blob) ==
    \A a, b \in DOMAIN blob.files.byId :
        (a # b /\ ~UriFileThrows(a) /\ ~UriFileThrows(b))
            => UriFileToString(a) # UriFileToString(b)

\* C21: the construction from a consistent legacy store raises no exception
\* and yields a store of version 1 in which a file id whose conversion throws,
\* its byId entry and the parent of its checkpoints are as they were, every
\* other file id, byId entry and parent is converted, and every checkpoint's
\* parent is the key of a File.
C21_FailedConversionKeepsOldForm ==
    ( /\ lastOp.op = "constructor"
      /\ IsLegacy(persisted)
      /\ Consistent(persisted)
      /\ ConvertedIdsDistinct(persisted) )
    => LET old == persisted
           new == checkpointStore
       IN /\ ~threw
          /\ new.version = 1
          /\ new.files.allIds =
                [i \in 1..Len(old.files.allIds) |-> Migrated(old.files.allIds[i])]
          /\ DOMAIN new.files.byId = {Migrated(f) : f \in DOMAIN old.files.byId}
          /\ \A f \in DOMAIN old.files.byId :
                IF UriFileThrows(f)
                THEN new.files.byId[f] = old.files.byId[f]
                ELSE new.files.byId[UriFileToString(f)] =
                        [old.files.byId[f] EXCEPT !.id = UriFileToString(f)]
          /\ new.checkpoints.allIds = old.checkpoints.allIds
          /\ DOMAIN new.checkpoints.byId = DOMAIN old.checkpoints.byId
          /\ \A c \in DOMAIN old.checkpoints.byId :
                /\ new.checkpoints.byId[c] =
                      [old.checkpoints.byId[c] EXCEPT !.parent = Migrated(@)]
                /\ new.checkpoints.byId[c].parent \in DOMAIN new.files.byId

\* C21 witness: the construction migrated a consistent store whose first file
\* id does not convert and whose second does, each with one checkpoint.
C21_Witness ==
    /\ lastOp.op = "constructor"
    /\ IsLegacy(persisted)
    /\ Consistent(persisted)
    /\ persisted.files.allIds = << NullId, <<"/", "a", " ", "x">> >>
    /\ Len(persisted.checkpoints.allIds) = 2
    /\ checkpointStore.files.allIds =
          << NullId, UriFileToString(<<"/", "a", " ", "x">>) >>
    /\ NullId \in DOMAIN checkpointStore.files.byId
    /\ ~threw

\* A blob of the current store version.
IsVersionOne(blob) ==
    blob # Undefined /\ "version" \in DOMAIN blob /\ blob.version = 1

\* C22: a construction that reads a store of version 1 returns that store,
\* with no file id and no parent rewritten, and dispatches no write; so does
\* every further construction from the slot.
C22_VersionOneLoadsUnchanged ==
    [][ (IsVersionOne(persisted) /\ lastOp'.op = "constructor")
        => /\ checkpointStore' = persisted
           /\ writes' = <<>>
           /\ persisted' = persisted
           /\ ~threw' ]_vars

\* C22 witness: a store of version 1 with two files, one with an encoded
\* path, was loaded as it is.
C22_Witness ==
    /\ lastOp.op = "constructor"
    /\ IsVersionOne(persisted)
    /\ Len(persisted.files.allIds) = 2
    /\ UriFileToString(<<"/", "a", " ", "x">>) \in DOMAIN persisted.files.byId
    /\ Len(persisted.checkpoints.allIds) = 2
    /\ checkpointStore = persisted
    /\ writes = <<>>

\* C23: a model constructed right after an add or a remove that wrote the
\* store holds a store with the same version, files.byId, files.allIds,
\* checkpoints.byId and checkpoints.allIds as the store of the ended session.
C23_PersistThenLoadIsSameStore ==
    [][ (lastOp.op \in {"add", "remove"} /\ lastOp'.op = "constructor")
        => /\ checkpointStore'.version = checkpointStore.version
           /\ checkpointStore'.files.byId = checkpointStore.files.byId
           /\ checkpointStore'.files.allIds = checkpointStore.files.allIds
           /\ checkpointStore'.checkpoints.byId = checkpointStore.checkpoints.byId
           /\ checkpointStore'.checkpoints.allIds = checkpointStore.checkpoints.allIds
      ]_vars

\* C23 witness: a model was constructed from the store that a session of two
\* adds left, with two files that name each other as duplicates.
C23_Witness ==
    /\ lastOp.op = "constructor"
    /\ addCount = 2
    /\ persisted # Undefined
    /\ persisted = checkpointStore
    /\ Len(checkpointStore.files.allIds) = 2
    /\ Len(checkpointStore.checkpoints.allIds) = 2
    /\ \A f \in DOMAIN checkpointStore.files.byId :
          checkpointStore.files.byId[f].fileNameDuplicates # <<>>

\* C24 (as claimed): when a write of the store is rejected, no exception is
\* raised, a warning is shown to the user and the store in memory stays as
\* the operation left it.
C24_RejectedWriteWarns ==
    [][ (lastOp'.op = "then" /\ lastOp'.outcome.state = "rejected")
        => /\ ~threw'
           /\ warnings' # <<>>
           /\ checkpointStore' = checkpointStore ]_vars

\* What a listener that queries the store on delivery of notification n sees
\* of the operation: an added checkpoint is retrievable and listed in its
\* file; a removed file or checkpoint is not retrievable, no checkpoint of a
\* removed file is, and after remove() nothing is; an updated checkpoint or
\* file is retrieved as the payload shows it.
SeesOperationDone(n) ==
    LET seen == n.seen
        payload == n.payload
    IN /\ n.channel = "added" =>
            /\ getCheckpoint(seen, payload.id) = payload
            /\ getFile(seen, payload.parent) # Undefined
            /\ payload.id \in Range(getFile(seen, payload.parent).checkpointIds)
            /\ payload \in Range(getCheckpoints(seen, payload.parent))
       /\ (n.channel = "removed" /\ isStore(payload)) =>
            /\ seen.files.allIds = <<>>
            /\ getCheckpoints(seen, EmptyString) = <<>>
       /\ (n.channel = "removed" /\ isFile(payload)) =>
            /\ getFile(seen, payload.id) = Undefined
            /\ getCheckpoints(seen, payload.id) = <<>>
            /\ \A c \in DOMAIN seen.checkpoints.byId :
                  seen.checkpoints.byId[c].parent # payload.id
       /\ (n.channel = "removed" /\ isCheckpoint(payload)) =>
            /\ getCheckpoint(seen, payload.id) = Undefined
            /\ payload \notin Range(getCheckpoints(seen, payload.parent))
       /\ (n.channel = "updated" /\ isCheckpoint(payload)) =>
            getCheckpoint(seen, payload.id) = payload
       /\ (n.channel = "updated" /\ isFile(payload)) =>
            /\ getFile(seen, payload.id) = payload
            /\ lastOp.op = "selectCheckpoint" => payload.selection = lastOp.id
            /\ lastOp.op = "clearSelectionFromFile" => payload.selection = EmptyString

\* C25: with pairwise distinct add timestamps, the store that the listeners
\* of a notification read is the store as the operation leaves it, and in it
\* the operation is done.
C25_DeliveredAfterMutation ==
    \A i \in 1..Len(fired) :
        /\ fired[i].seen = checkpointStore
        /\ SeesOperationDone(fired[i])

\* C25 witness: remove of a file with two checkpoints fired its notification
\* to listeners that saw neither the file nor its checkpoints.
C25_Witness ==
    /\ FiredRemoved
    /\ isFile(fired[1].payload)
    /\ before.checkpoints = 2
    /\ fired[1].seen.checkpoints.allIds = <<>>
    /\ fired[1].seen.files.allIds = <<>>

\* The invariants of the data model, for a store: allIds and byId agree
\* without repeated id, every checkpoint's parent is a File that lists it,
\* every File lists, without repeat, at least one checkpoint and only its
\* own, selections point into the file and the duplicates relation is
\* symmetric.
DataModelInvariants(store) ==
    /\ NoRepeats(store.files.allIds)
    /\ Range(store.files.allIds) = DOMAIN store.files.byId
    /\ NoRepeats(store.checkpoints.allIds)
    /\ Range(store.checkpoints.allIds) = DOMAIN store.checkpoints.byId
    /\ \A c \in DOMAIN store.checkpoints.byId :
         LET parent == store.checkpoints.byId[c].parent
         IN /\ parent \in DOMAIN store.files.byId
            /\ c \in Range(store.files.byId[parent].checkpointIds)
    /\ \A f \in DOMAIN store.files.byId :
         LET checkpointIds == store.files.byId[f].checkpointIds
         IN /\ checkpointIds # <<>>
            /\ NoRepeats(checkpointIds)
            /\ \A c \in Range(checkpointIds) :
                 /\ c \in DOMAIN store.checkpoints.byId
                 /\ store.checkpoints.byId[c].parent = f
    /\ SelectionInFile(store)
    /\ DuplicatesSymmetric(store)

\* C26 (as claimed): every store that add or remove passes to
\* workspaceState.update is the store as the operation leaves it, and the
\* invariants of the data model hold in it.
C26_WritesCarryValidStore ==
    lastOp.op \in {"add", "remove"} =>
        \A i \in 1..Len(writes) :
            /\ writes[i] = checkpointStore
            /\ DataModelInvariants(writes[i])

\* C27 (as claimed): in every state, also when no context was ever set, an
\* assignment to checkpointContext of a uri equal to the current context or
\* of the scheme of the diff view changes nothing and fires nothing; any other
\* assignment sets the context and fires one context notification with it.
C27_ContextSetter ==
    [][ lastOp'.op = "checkpointContext" =>
          LET fileUri == lastOp'.fileUri
              equal == /\ currentCheckpointContext # Undefined
                       /\ UriToString(currentCheckpointContext) = UriToString(fileUri)
          IN IF equal \/ fileUri.scheme = checkpointsDocumentView
             THEN /\ currentCheckpointContext' = currentCheckpointContext
                  /\ fired' = <<>>
             ELSE /\ currentCheckpointContext' = fileUri
                  /\ Len(fired') = 1
                  /\ fired'[1].channel = "checkpointContext"
                  /\ fired'[1].payload = fileUri ]_vars

\* C28: with pairwise distinct add timestamps, getCheckpoints(fileId) is the
\* sequence of the stored checkpoints of that file in the order they were
\* added, without undefined element, and is empty for an id that is no file
\* id; getCheckpoints() is the sequence of all stored checkpoints, each once,
\* in the order they were added.
C28_GetCheckpoints ==
    /\ \A fileId \in DOMAIN Files.byId :
          LET result == getCheckpoints(checkpointStore, fileId)
              children == ChildrenInAddOrder(fileId)
          IN /\ result = [i \in 1..Len(children) |-> Checkpoints.byId[children[i]]]
             /\ Undefined \notin Range(result)
    /\ \A id \in (Documents \cup CheckpointIds \cup {UnknownId}) \ DOMAIN Files.byId :
          getCheckpoints(checkpointStore, id) = <<>>
    /\ LET all == getCheckpoints(checkpointStore, EmptyString)
       IN /\ all = [i \in 1..Len(addOrder) |-> Checkpoints.byId[addOrder[i]]]
          /\ NoRepeats(all)
          /\ Range(all) = {Checkpoints.byId[c] : c \in DOMAIN Checkpoints.byId}

\* C28 witness: three checkpoints in two files, those of one file added
\* against the order of their timestamps; the query of that file returns its
\* two, the query without id all three.
C28_Witness ==
    /\ Len(getCheckpoints(checkpointStore, EmptyString)) = 3
    /\ Len(Files.allIds) = 2
    /\ \E fileId \in DOMAIN Files.byId :
          LET result == getCheckpoints(checkpointStore, fileId)
          IN /\ Len(result) = 2
             /\ result[1].timestamp > result[2].timestamp
             /\ result[1].parent = fileId

\* The length that the declaration of maxLengthFileName names.
maxLengthFileName == 15

\* C29 (as claimed): the extraName of every File is the directory part of
\* its id when that has at most 15 characters, and else the marker '...'
\* followed by at most 15 trailing characters of it.
C29_ExtraNameBounded ==
    \A f \in DOMAIN Files.byId :
        LET dir == dirname(f)
            extraName == Files.byId[f].extraName
        IN IF Len(dir) > maxLengthFileName
           THEN \E k \in 0..maxLengthFileName :
                   extraName = <<".", ".", ".">> \o SubSeq(dir, Len(dir) - k + 1, Len(dir))
           ELSE extraName = dir

\* File f names a stored file as duplicate that does not name f.
NotListedBack(store, f) ==
    \E b \in Range(store.files.byId[f].fileNameDuplicates) :
        /\ b \in DOMAIN store.files.byId
        /\ f \notin Range(store.files.byId[b].fileNameDuplicates)

\* C30 (as claimed): a remove that deletes a File which a file of its
\* fileNameDuplicates does not list back raises no exception and takes from
\* the fileNameDuplicates of the remaining files no id but that of the
\* deleted File.
C30_AsymmetricDeleteKeepsOthers ==
    [][ (lastOp'.op = "remove" /\ lastOp'.id # EmptyString) =>
          \A f \in (DOMAIN Files.byId) \ (DOMAIN Files.byId') :
             NotListedBack(checkpointStore, f)
             => /\ ~threw'
                /\ \A g \in DOMAIN Files.byId' :
                     (Range(Files.byId[g].fileNameDuplicates) \ {f})
                         \subseteq Range(Files.byId'[g].fileNameDuplicates) ]_vars

\* C31: the command Add Checkpoint invoked while the active document is
\* untitled, and the command whose input box is cancelled, leave the store as
\* it is and fire nothing; a checkpoint added for an empty entered name has
\* the name "Untitled".
C31_AddCheckpointCommand ==
    [][ /\ (/\ lastOp'.op \in {"onAddCheckpoint", "add"}
            /\ lastOp'.step = "invoke"
            /\ activeEditor # Undefined
            /\ activeEditor.isUntitled)
           => /\ checkpointStore' = checkpointStore
              /\ fired' = <<>>
              /\ prompt' = Undefined
        /\ (/\ lastOp'.op \in {"onAddCheckpoint", "add"}
            /\ lastOp'.step = "answer"
            /\ ~lastOp'.result.entered)
           => /\ checkpointStore' = checkpointStore
              /\ fired' = <<>>
        /\ (/\ lastOp'.op = "add"
            /\ lastOp'.step = "answer"
            /\ lastOp'.result = [entered |-> TRUE, value |-> ""])
           => /\ Len(fired') = 1
              /\ fired'[1].channel = "added"
              /\ fired'[1].payload.name = "Untitled"
              /\ checkpointStore'.checkpoints.byId[toString(lastOp'.timestamp)].name
                    = "Untitled" ]_vars

\* C31 witness: the first checkpoint of the store was added for an empty
\* entered name and has the name "Untitled".
C31_Witness ==
    /\ lastOp.op = "add"
    /\ lastOp.step = "answer"
    /\ lastOp.result = [entered |-> TRUE, value |-> ""]
    /\ Len(fired) = 1
    /\ fired[1].payload.name = "Untitled"
    /\ Len(checkpointStore.checkpoints.allIds) = 1
    /\ addCount = 1

\* The step fired one notification, on channel.
FiresOne(channel) == Len(fired') = 1 /\ fired'[1].channel = channel

\* C32: with pairwise distinct add timestamps, every operation that finds its
\* item fires exactly one notification: add one added; remove one removed,
\* with the File for a file id, the store for no id and the Checkpoint for a
\* checkpoint id; renameCheckpoint, selectCheckpoint and
\* clearSelectionFromFile one updated.  An operation that does not find its
\* item fires none.
C32_OneNotification ==
    [][ LET op == lastOp'.op
            id == lastOp'.id
        IN /\ op = "add" => FiresOne("added")
           /\ op = "remove" =>
                IF id = EmptyString
                THEN FiresOne("removed") /\ isStore(fired'[1].payload)
                ELSE IF id \in DOMAIN Files.byId
                THEN /\ FiresOne("removed")
                     /\ isFile(fired'[1].payload)
                     /\ fired'[1].payload.id = id
                ELSE IF id \in DOMAIN Checkpoints.byId
                THEN /\ FiresOne("removed")
                     /\ isCheckpoint(fired'[1].payload)
                     /\ fired'[1].payload.id = id
                ELSE fired' = <<>>
           /\ op \in {"renameCheckpoint", "selectCheckpoint"} =>
                IF id \in DOMAIN Checkpoints.byId
                THEN FiresOne("updated") ELSE fired' = <<>>
           /\ op = "clearSelectionFromFile" =>
                IF id \in DOMAIN Files.byId
                THEN FiresOne("updated") ELSE fired' = <<>> ]_vars

\* C32 witness: remove of a file with two checkpoints, while another file
\* stays, fired one notification, with the File.
C32_Witness ==
    /\ lastOp.op = "remove"
    /\ Len(fired) = 1
    /\ fired[1].channel = "removed"
    /\ isFile(fired[1].payload)
    /\ fired[1].payload.id = lastOp.id
    /\ before.checkpoints = 3
    /\ Len(Checkpoints.allIds) = 1
    /\ Len(Files.allIds) = 1

\* C33 (as claimed): once a consistent legacy store is migrated, every id in every
\* file's fileNameDuplicates is the id of a File of the store, and the remove
\* calls that follow raise no exception.
C33_MigratedDuplicatesAreFiles ==
    (IsLegacy(persisted) /\ Consistent(persisted)
     /\ lastOp.op \in {"constructor", "remove"})
        => /\ ~threw
           /\ \A a \in DOMAIN Files.byId :
                Range(Files.byId[a].fileNameDuplicates) \subseteq DOMAIN Files.byId

\* C34: once the model is constructed, from no blob, a legacy blob or a
\* version-1 blob, the store's version is 1 and stays 1 through every store
\* operation; constructed from no blob, the store has no file and no
\* checkpoint.
C34_VersionIsOne ==
    lastOp.op # "activate"
        => /\ checkpointStore.version = 1
           /\ (lastOp.op = "constructor" /\ persisted = Undefined)
                => /\ Files = [byId |-> EmptyObject, allIds |-> <<>>]
                   /\ Checkpoints = [byId |-> EmptyObject, allIds |-> <<>>]

\* C34 witness: a legacy blob (version 0) was loaded, a checkpoint was added
\* and one removed, and the version is 1.
C34_Witness ==
    /\ persisted # Undefined
    /\ "version" \in DOMAIN persisted
    /\ persisted.version = 0
    /\ lastOp.op = "remove"
    /\ ~threw
    /\ addCount > 0
    /\ checkpointStore.version = 1

\* C35: from the empty store, after any sequence of add and remove, each
\* File's fileNameDuplicates holds no id twice, and holds exactly the ids of
\* the other Files of the store whose name equals its own.
C35_DuplicatesExact ==
    \A a \in DOMAIN Files.byId :
        /\ NoRepeats(Files.byId[a].fileNameDuplicates)
        /\ Range(Files.byId[a].fileNameDuplicates)
             = { b \in Range(Files.allIds) \ {a} :
                   Files.byId[b].name = Files.byId[a].name }

\* C35 witness: after a remove, two files of one name list each other and a
\* file of another name lists nothing.
C35_Witness ==
    /\ lastOp.op = "remove"
    /\ ~threw
    /\ \E a, b, c \in DOMAIN Files.byId :
         /\ a # b
         /\ Files.byId[a].fileNameDuplicates = <<b>>
         /\ Files.byId[b].fileNameDuplicates = <<a>>
         /\ Files.byId[c].name # Files.byId[a].name
         /\ Files.byId[c].fileNameDuplicates = <<>>

\* C36: remove of a stored checkpoint leaves every other checkpoint as it
\* was, leaves every File other than the owner in the store with its
\* checkpointIds and selection, and with its fileNameDuplicates unless the
\* owner was deleted, and leaves the owner's selection when the removed
\* checkpoint was not the selected one.
C36_RemoveCheckpointFrame ==
    [][ (lastOp'.op = "remove" /\ lastOp'.id \in DOMAIN Checkpoints.byId)
        => LET id == lastOp'.id
               owner == Checkpoints.byId[id].parent
               deleted == owner \notin DOMAIN Files'.byId
           IN /\ \A c \in DOMAIN Checkpoints.byId \ {id} :
                    /\ c \in DOMAIN Checkpoints'.byId
                    /\ Checkpoints'.byId[c] = Checkpoints.byId[c]
              /\ \A f \in DOMAIN Files.byId \ {owner} :
                    /\ f \in DOMAIN Files'.byId
                    /\ Files'.byId[f].checkpointIds = Files.byId[f].checkpointIds
                    /\ Files'.byId[f].selection = Files.byId[f].selection
                    /\ ~deleted => Files'.byId[f].fileNameDuplicates
                                      = Files.byId[f].fileNameDuplicates
              /\ (~deleted /\ Files.byId[owner].selection # id)
                    => Files'.byId[owner].selection = Files.byId[owner].selection
      ]_vars

\* C36 witness: a checkpoint that was not the selected one of its file was
\* removed; the file stays with its selection, next to another file that has
\* a selection.
C36_Witness ==
    /\ lastOp.op = "remove"
    /\ ~threw
    /\ Len(fired) = 1
    /\ isCheckpoint(fired[1].payload)
    /\ fired[1].payload.parent \in DOMAIN Files.byId
    /\ Files.byId[fired[1].payload.parent].selection # EmptyString
    /\ \E f \in DOMAIN Files.byId \ {fired[1].payload.parent} :
         Files.byId[f].selection # EmptyString

\* C37 (as claimed): the add that follows an answered name prompt stores the
\* checkpoint under the document that was active when the command was
\* invoked, and no File of the store is an untitled document.
C37_AddsToInvokedDocument ==
    [][ (prompt # Undefined /\ lastOp'.op = "add")
        => /\ lastOp'.id = UriToString(prompt.document.uri)
           /\ \A d \in EditorDocuments :
                d.isUntitled => UriToString(d.uri) \notin DOMAIN Files'.byId
      ]_vars

\* C38 (as claimed): with showActiveFileOnly, when the context document has a
\* File in the store, the root children of the tree view are the checkpoints
\* of that File, in the order of its checkpointIds, and there is at least one.
C38_RootShowsContextFile ==
    (currentCheckpointContext # Undefined
     /\ UriToString(currentCheckpointContext) \in DOMAIN Files.byId)
        => LET file == Files.byId[UriToString(currentCheckpointContext)]
               children == getChildren(checkpointStore, currentCheckpointContext)
           IN /\ children # <<>>
              /\ [i \in DOMAIN children |-> children[i].nodeId] = file.checkpointIds

\* C39 (as claimed): an add that raises, for a document without File in the
\* store, leaves the store as it was before the call.
C39_FailedAddLeavesStore ==
    [][ (lastOp'.op = "add" /\ threw' /\ lastOp'.id \notin DOMAIN Files.byId)
        => checkpointStore' = checkpointStore ]_vars

====
